---- MODULE Spec2Model ----
(***************************************************************************)
(* Obfusku: the single-pass compiler, the bytecode serializer and the      *)
(* stack virtual machine, modelled from the Rust sources.                  *)
(*                                                                         *)
(* A source program is given as the statement tree the recursive-descent   *)
(* compiler walks (one record per statement form of Compiler::statement);  *)
(* the compiler is a pure operator from that tree to a Chunk, the          *)
(* serializer a pure operator from a Chunk to the bytes of an .obc file    *)
(* and back, and the virtual machine a state machine with one action per   *)
(* opcode.  Byte offsets, operand widths and little-endian encodings are   *)
(* those of the code; Rust indexes from 0, TLA+ sequences from 1.          *)
(***************************************************************************)
EXTENDS Integers, Sequences, FiniteSets, TLC

VARIABLES
    source,              \* the program handed to the driver (run_file / compile_file)
    file,                \* the bytes of the .obc file (compile_file writes, load_file reads)
    chunks,              \* Context.chunks: empty, or the chunk Runtime::execute was given
    frames,              \* Context.frames
    globals,             \* Context.globals
    stack,               \* Runtime.stack.values
    exception_handlers,  \* Context.exception_handlers
    current_exception,   \* Context.current_exception
    halted,              \* Context.halted
    output,              \* what Print wrote to standard output
    command,             \* the driver's subcommand: "none", "run", "compile" or "load"
    result,              \* what the driver returned: "idle", "running", "ok" or the error
    literals,            \* the constants in the compiler's pool when it meets a literal
    accumulator,         \* Context.accumulator
    accumulator_stack,   \* Context.accumulator_stack
    loading_stack,       \* ModuleLoader.loading_stack
    modules,             \* ModuleLoader.modules, each module by its name
    loaded,              \* ModuleLoader.loaded: the index of each loaded name
    symbol_table,        \* the SymbolTable the Lexer borrows
    chars,               \* Lexer.chars: the code points not yet consumed
    tokens,              \* the tokens Lexer::tokenize has pushed
    current,             \* Compiler.current: the index of the token under peek
    counted,             \* count / pair_count: the u16 counter of the literal in progress
    position             \* the calls of the compiler that have not returned

\* the accumulator register, the module loader and the lexer
acc_vars == <<accumulator, accumulator_stack>>
loader_vars == <<loading_stack, modules, loaded>>
lexer_vars == <<symbol_table, chars, tokens>>
parser_vars == <<current, counted, position>>

\* what a run of the virtual machine on a compiled program leaves alone
aside == <<literals, acc_vars, loader_vars, lexer_vars, parser_vars>>

vars == <<source, file, chunks, frames, globals, stack, exception_handlers,
          current_exception, halted, output, command, result, aside>>

-----------------------------------------------------------------------------
(* Bounds of the model *)

\* integer literals of the source programs range over 0..MaxLit
MaxLit == 1

-----------------------------------------------------------------------------
(* bytecode/opcode.rs *)

OpCode ==
    [Const |-> 1, Null |-> 2, True |-> 3, False |-> 4, Pop |-> 5, Dup |-> 6,
     Swap |-> 7, Rot |-> 8,
     DeclareVar |-> 16, LoadVar |-> 17, StoreVar |-> 18, LoadGlobal |-> 19,
     StoreGlobal |-> 20,
     Add |-> 32, Sub |-> 33, Mul |-> 34, Div |-> 35, Mod |-> 36, Pow |-> 37,
     Neg |-> 38, Inc |-> 39, Dec |-> 40,
     Eq |-> 48, Ne |-> 49, Lt |-> 50, Gt |-> 51, Le |-> 52, Ge |-> 53,
     And |-> 64, Or |-> 65, Not |-> 66, Xor |-> 67,
     Jump |-> 80, JumpIfFalse |-> 81, JumpIfTrue |-> 82, Loop |-> 83,
     Break |-> 84, Continue |-> 85,
     Call |-> 96, Return |-> 97, DefineFunc |-> 98, LoadFunc |-> 99,
     CallClosure |-> 94,
     MakeArray |-> 100, ArrayGet |-> 101, ArraySet |-> 102, ArrayLen |-> 103,
     ArrayPush |-> 104,
     MakeMap |-> 105, MapGet |-> 106, MapSet |-> 107, MapHas |-> 108,
     MapRemove |-> 109, MapKeys |-> 110, MapValues |-> 111,
     MakeClosure |-> 160, LoadCapture |-> 161, StoreCapture |-> 162,
     MatchBegin |-> 163, MatchArm |-> 164, MatchEnd |-> 165,
     MatchWildcard |-> 166, MatchBind |-> 167,
     Import |-> 168, Export |-> 169, LoadModule |-> 170,
     TryBegin |-> 176, TryEnd |-> 177, Throw |-> 178, Catch |-> 179,
     Finally |-> 180,
     PrintLit |-> 113, Input |-> 114, Debug |-> 115,
     LoadAcc |-> 128, StoreAcc |-> 129, IncAcc |-> 130, DecAcc |-> 131,
     Concat |-> 144, Convert |-> 145, Interpolate |-> 146,
     Nop |-> 254, Halt |-> 255]
    @@ ("Print" :> 112)

ValueType ==
    [Integer |-> 0, Real |-> 1, String |-> 2, Boolean |-> 3, Rune |-> 4,
     Array |-> 5, Map |-> 6, Null |-> 7, Function |-> 8, Closure |-> 9,
     Module |-> 10]


\* the bytes that are an OpCode, and those that are a ValueType
DefinedOpcodes == {OpCode[k] : k \in DOMAIN OpCode}
DefinedValueTypes == ValueType.Integer..ValueType.Module

\* `unsafe { std::mem::transmute(byte) }` to OpCode or to ValueType (both
\* #[repr(u8)]): a defined byte is its variant; for any other byte the
\* behaviour is undefined, and the value is taken for any variant or stays the
\* byte it is (which no variant equals)
transmute_OpCode(byte) ==
    IF byte \in DefinedOpcodes THEN {byte} ELSE DefinedOpcodes \cup {byte}
transmute_ValueType(byte) ==
    IF byte \in DefinedValueTypes THEN {byte} ELSE DefinedValueTypes \cup {byte}

\* enum Value: a tag t (the ValueType of Value::value_type) and a payload v
IntegerV(i) == [t |-> ValueType.Integer, v |-> i]
StringV(s) == [t |-> ValueType.String, v |-> s]
BooleanV(b) == [t |-> ValueType.Boolean, v |-> b]
NullV == [t |-> ValueType.Null, v |-> 0]
FunctionV(idx) == [t |-> ValueType.Function, v |-> idx]
\* struct Closure {function_index, captures}, boxed in Value::ClosureVal
Closure_new(function_index, captures) ==
    [function_index |-> function_index, captures |-> captures]
ClosureVal(c) == [t |-> ValueType.Closure, v |-> c]
ArrayV(elements) == [t |-> ValueType.Array, v |-> elements]
MapV(entries) == [t |-> ValueType.Map, v |-> entries]

\* the one Real of the model: the NaN that power gives for -1 to the 0.5
RealNaN == [t |-> ValueType.Real, v |-> "NaN"]

\* `k == &key` of the derived PartialEq: the same variant holding the same
\* payload, the payloads of Real compared as f64 (a NaN equals nothing)
Value_eq(a, b) == a.t = b.t /\ a.v = b.v /\ a # RealNaN

value_type(value) == value.t

\* Value::to_string_value, for the values the programs print; a glyph is
\* written by its code point ("U+2205" is the null glyph, "U+03BB" lambda,
\* "U+2283" the superset sign, "U+25C9" / "U+25CE" the boolean glyphs)
to_string_value(value) ==
    CASE value.t = ValueType.Integer -> ToString(value.v)
      [] value.t = ValueType.String -> value.v
      [] value.t = ValueType.Boolean -> IF value.v THEN "U+25C9" ELSE "U+25CE"
      [] value.t = ValueType.Null -> "U+2205"
      [] value.t = ValueType.Function -> "U+03BB#" \o ToString(value.v)
      [] value.t = ValueType.Closure ->
            "U+03BBU+2283#" \o ToString(value.v.function_index)

\* Value::is_truthy, for the values the programs test
is_truthy(value) ==
    CASE value.t = ValueType.Null -> FALSE
      [] value.t = ValueType.Boolean -> value.v
      [] value.t = ValueType.Integer -> value.v # 0
      [] value.t = ValueType.String -> value.v # ""
      [] OTHER -> TRUE

\* FunctionInfo::new: no capture names
FunctionInfo_new(name, arity, params, start, length) ==
    [name |-> name, arity |-> arity, params |-> params, start |-> start,
     length |-> length, capture_names |-> <<>>]

Chunk_new(name) ==
    [code |-> <<>>, constants |-> <<>>, strings |-> <<>>, lines |-> <<>>,
     name |-> name, functions |-> <<>>]

U16Max == 65535

\* `x as u16`, `x as u8`
AsU16(x) == x % (U16Max + 1)
AsU8(x) == x % 256

\* Chunk::write
write(ch, byte, line) ==
    [ch EXCEPT !.code = Append(@, byte), !.lines = Append(@, line)]

\* Chunk::write_u16: little-endian
write_u16(ch, value, line) ==
    write(write(ch, value % 256, line), value \div 256, line)

\* the index (from 0) of the first element of seq equal to x, or -1
Position(seq, x) ==
    IF \E i \in 1..Len(seq) : seq[i] = x
    THEN (CHOOSE i \in 1..Len(seq) : seq[i] = x /\ \A j \in 1..(i - 1) : seq[j] # x) - 1
    ELSE -1

\* Chunk::add_constant: [chunk, idx]
add_constant(ch, value) ==
    [chunk |-> [ch EXCEPT !.constants = Append(@, value)],
     idx |-> AsU16(Len(ch.constants))]

\* Chunk::add_string: an existing string gives its existing index
add_string(ch, s) ==
    IF Position(ch.strings, s) >= 0
    THEN [chunk |-> ch, idx |-> AsU16(Position(ch.strings, s))]
    ELSE [chunk |-> [ch EXCEPT !.strings = Append(@, s)],
          idx |-> AsU16(Len(ch.strings))]

\* Chunk::add_function
add_function(ch, func) ==
    [chunk |-> [ch EXCEPT !.functions = Append(@, func)],
     idx |-> AsU16(Len(ch.functions))]

\* Chunk::patch_jump: offset is the 0-based place of the operand's low byte
patch_jump(ch, offset) ==
    LET jump == Len(ch.code) - offset - 2
    IN [ch EXCEPT !.code[offset + 1] = jump % 256,
                  !.code[offset + 2] = AsU8(jump \div 256)]

\* Chunk::read_u16 / Runtime::read_u16: (high << 8) | low
read_u16_at(code, offset) == code[offset + 2] * 256 + code[offset + 1]

-----------------------------------------------------------------------------
(* compiler.rs: the compiler state is the record c (struct Compiler); a    *)
(* statement record carries the line of its first token, and c.line is the *)
(* line of the last consumed token (self.previous().location.line).        *)
(* Declared types of the programs are Integer, String and Boolean.         *)

NoError == "none"

FunctionScope_new(name, arity, params, start_offset) ==
    [name |-> name, arity |-> arity, params |-> params,
     start_offset |-> start_offset, captures |-> <<>>,
     locals |-> [i \in 1..Len(params) |-> params[i][1]], is_closure |-> FALSE]

\* FunctionScope::is_local
is_local(scope, name) == Position(scope.locals, name) >= 0

\* FunctionScope::add_local
add_local(scope, name) ==
    IF is_local(scope, name) THEN scope ELSE [scope EXCEPT !.locals = Append(@, name)]

\* FunctionScope::get_capture_index: -1 stands for None
get_capture_index(scope, name) == Position(scope.captures, name)

\* FunctionScope::add_capture: [scope, idx]
add_capture(scope, name) ==
    IF Position(scope.captures, name) >= 0
    THEN [scope |-> scope, idx |-> Position(scope.captures, name)]
    ELSE [scope |-> [scope EXCEPT !.captures = Append(@, name), !.is_closure = TRUE],
          idx |-> Len(scope.captures)]

Compiler_new ==
    [chunk |-> Chunk_new("main"), line |-> 1, loops |-> <<>>,
     had_end_program |-> FALSE, function_stack |-> <<>>,
     function_indices |-> <<>>, closure_captures |-> <<>>, err |-> NoError]

\* the `?` of an Err(..): the first error ends the compilation
Fail(c, e) == IF c.err = NoError THEN [c EXCEPT !.err = e] ELSE c

emit_op(c, op) == [c EXCEPT !.chunk = write(@, op, c.line)]
emit_byte(c, byte) == [c EXCEPT !.chunk = write(@, byte, c.line)]
emit_u16(c, value) == [c EXCEPT !.chunk = write_u16(@, value, c.line)]

\* the `?` of the compiler: after an error nothing more is compiled
Then(c, F(_)) == IF c.err # NoError THEN c ELSE F(c)

\* `let x = e;`
Let(x, F(_)) == F(x)

\* Compiler::emit_constant
emit_constant(c, value) ==
    Let(add_constant(c.chunk, value), LAMBDA a :
        emit_u16(emit_op([c EXCEPT !.chunk = a.chunk], OpCode.Const), a.idx))

\* LoadVar name_idx, the name interned with add_string
emit_LoadVar(c, name) ==
    Let(add_string(c.chunk, name), LAMBDA a :
        emit_u16(emit_op([c EXCEPT !.chunk = a.chunk], OpCode.LoadVar), a.idx))

\* Compiler::emit_variable_load
emit_variable_load(c, name) ==
    IF c.function_stack = <<>>
    THEN emit_LoadVar(c, name)
    ELSE LET current_depth == Len(c.function_stack)
             current_func == c.function_stack[current_depth]
             found_in_outer ==
                 \E depth \in 1..(current_depth - 1) : is_local(c.function_stack[depth], name)
         IN IF is_local(current_func, name)
            THEN emit_LoadVar(c, name)
            ELSE IF get_capture_index(current_func, name) >= 0
            THEN emit_u16(emit_op(c, OpCode.LoadCapture),
                          AsU16(get_capture_index(current_func, name)))
            ELSE IF found_in_outer
            THEN Let(add_capture(current_func, name), LAMBDA a :
                     emit_u16(emit_op([c EXCEPT !.function_stack[current_depth] = a.scope],
                                      OpCode.LoadCapture),
                              AsU16(a.idx)))
            ELSE emit_LoadVar(c, name)

\* Compiler::register_local
register_local(c, name) ==
    IF c.function_stack = <<>>
    THEN c
    ELSE [c EXCEPT !.function_stack[Len(c.function_stack)] = add_local(@, name)]

RECURSIVE expression(_, _), expression_list(_, _), statement(_, _), statements(_, _)

\* the argument loop of function_call: one expression after the other
expression_list(c, es) ==
    IF es = <<>> \/ c.err # NoError THEN c
    ELSE expression_list(expression(c, Head(es)), Tail(es))

\* a function_call that loads the callee before it compiles the arguments
function_call_CalleeFirst(c, e) ==
    IF e.name \in DOMAIN c.function_indices
    THEN Then(expression_list(c, e.args), LAMBDA c1 :
             emit_byte(emit_u16(emit_op(c1, OpCode.Call), c1.function_indices[e.name]),
                       AsU8(Len(e.args))))
    ELSE Then(expression_list(emit_variable_load(c, e.name), e.args), LAMBDA c1 :
             emit_byte(emit_op(c1, OpCode.CallClosure), AsU8(Len(e.args))))

\* Compiler::function_call
function_call(c, e) ==
    Then(expression_list(c, e.args), LAMBDA c1 :
        IF e.name \in DOMAIN c1.function_indices
        THEN emit_byte(emit_u16(emit_op(c1, OpCode.Call), c1.function_indices[e.name]),
                       AsU8(Len(e.args)))
        ELSE emit_byte(emit_op(emit_variable_load(c1, e.name), OpCode.CallClosure),
                       AsU8(Len(e.args))))

RECURSIVE emit_capture_loads(_, _)
\* the loop of primary that pushes the captured values of a closure
emit_capture_loads(c, names) ==
    IF names = <<>> THEN c
    ELSE emit_capture_loads(emit_variable_load(c, Head(names)), Tail(names))

\* Compiler::primary
primary(c, e) ==
    CASE e.k = "Integer" -> emit_constant(c, IntegerV(e.v))
      [] e.k = "String" -> emit_constant(c, StringV(e.v))
      [] e.k = "Null" -> emit_op(c, OpCode.Null)
      [] e.k = "Call" -> function_call(c, e)
      [] e.k = "Identifier" ->
            IF e.name \in DOMAIN c.function_indices
            THEN LET func_idx == c.function_indices[e.name]
                 IN IF func_idx \in DOMAIN c.closure_captures
                    THEN emit_byte(emit_u16(emit_op(emit_capture_loads(
                                                        c, c.closure_captures[func_idx]),
                                                    OpCode.MakeClosure),
                                            func_idx),
                                   AsU8(Len(c.closure_captures[func_idx])))
                    ELSE emit_u16(emit_op(c, OpCode.LoadFunc), func_idx)
            ELSE emit_variable_load(c, e.name)

\* Compiler::expression: the operator levels reduce to primary for the
\* operator-free expressions of the programs
expression(c, e) == primary(c, e)

\* Compiler::variable_declaration
variable_declaration(c, s) ==
    Let(add_string(c.chunk, s.name), LAMBDA a :
    Let(register_local([c EXCEPT !.chunk = a.chunk], s.name), LAMBDA c1 :
    Then(IF s.init # <<>> THEN expression(c1, s.init[1])
         ELSE IF s.optional THEN emit_op(c1, OpCode.Null)
         ELSE CASE s.type = ValueType.Integer -> emit_constant(c1, IntegerV(0))
                [] s.type = ValueType.String -> emit_constant(c1, StringV(""))
                [] s.type = ValueType.Boolean -> emit_op(c1, OpCode.False)
                [] OTHER -> emit_op(c1, OpCode.Null),
         LAMBDA c2 :
            emit_byte(emit_u16(emit_op(c2, OpCode.DeclareVar), a.idx), s.type))))

\* Compiler::map_declaration: the loop over the pairs, key then value
RECURSIVE map_pairs(_, _)
map_pairs(c, pairs) ==
    IF pairs = <<>> \/ c.err # NoError THEN c
    ELSE map_pairs(Then(expression(c, Head(pairs)[1]),
                        LAMBDA c1 : expression(c1, Head(pairs)[2])),
                   Tail(pairs))

\* Compiler::map_declaration
map_declaration(c, s) ==
    Let(add_string(c.chunk, s.name), LAMBDA a :
    Then(map_pairs([c EXCEPT !.chunk = a.chunk], s.pairs), LAMBDA c1 :
        emit_byte(emit_u16(emit_op(emit_u16(emit_op(c1, OpCode.MakeMap),
                                            AsU16(Len(s.pairs))),
                                   OpCode.DeclareVar),
                           a.idx),
                  ValueType.Map)))

\* Compiler::assignment, for an identifier target
assignment(c, s) ==
    Then(expression(c, s.expr), LAMBDA c1 :
    Let(add_string(c1.chunk, s.name), LAMBDA a :
        emit_u16(emit_op([c1 EXCEPT !.chunk = a.chunk], OpCode.StoreVar), a.idx)))

\* Compiler::simple_assignment
simple_assignment(c, s) ==
    Let(add_string(c.chunk, s.name), LAMBDA a :
    Then(expression([c EXCEPT !.chunk = a.chunk], s.expr), LAMBDA c1 :
        emit_u16(emit_op(c1, OpCode.StoreVar), a.idx)))

\* Compiler::output
output_statement(c, s) ==
    Then(expression(c, s.expr), LAMBDA c1 : emit_op(c1, OpCode["Print"]))

\* Compiler::throw_statement
throw_statement(c, s) ==
    Then(expression(c, s.expr), LAMBDA c1 : emit_op(c1, OpCode.Throw))

\* Compiler::push_statement: the value stays on the stack
push_statement(c, s) == expression(c, s.expr)

\* Compiler::return_statement
return_statement(c, s) ==
    IF c.function_stack = <<>> THEN Fail(c, "ReturnOutsideFunction")
    ELSE Then(IF s.value # <<>> THEN expression(c, s.value[1]) ELSE emit_op(c, OpCode.Null),
              LAMBDA c1 : emit_op(c1, OpCode.Return))

\* Compiler::function_definition
function_definition(c, s) ==
    IF s.name \in DOMAIN c.function_indices THEN Fail(c, "DuplicateFunction")
    ELSE
    LET arity == AsU8(Len(s.params))
        jump_over == Len(c.chunk.code) + 1
        func_start == Len(c.chunk.code) + 3
    IN
    Let(emit_u16(emit_op(c, OpCode.Jump), U16Max), LAMBDA c1 :
    Then(statements([c1 EXCEPT !.function_stack =
                        Append(@, FunctionScope_new(s.name, arity, s.params, func_start))],
                    s.body), LAMBDA c3 :
    Let(emit_op(emit_op([c3 EXCEPT !.line = s.end_line], OpCode.Null), OpCode.Return),
        LAMBDA c4 :
    Let(c4.function_stack[Len(c4.function_stack)], LAMBDA func_scope :
    Let(add_function(patch_jump(c4.chunk, jump_over),
                     [FunctionInfo_new(s.name, arity, s.params, func_start,
                                       Len(c4.chunk.code) - func_start)
                         EXCEPT !.capture_names = func_scope.captures]), LAMBDA a :
        [c4 EXCEPT !.chunk = a.chunk,
                   !.function_stack = SubSeq(@, 1, Len(@) - 1),
                   !.function_indices = (s.name :> a.idx) @@ @,
                   !.closure_captures =
                       IF func_scope.is_closure
                       THEN (a.idx :> func_scope.captures) @@ @
                       ELSE @])))))

\* `for jump in loop_info.break_jumps { self.chunk.patch_jump(jump); }`
RECURSIVE patch_jumps(_, _)
patch_jumps(ch, jumps) ==
    IF jumps = <<>> THEN ch ELSE patch_jumps(patch_jump(ch, Head(jumps)), Tail(jumps))

\* Compiler::loop_statement up to the body: the condition, the JumpIfFalse
\* with its placeholder, the LoopInfo pushed
loop_head(c, s) ==
    Then(expression(c, s.cond), LAMBDA c1 :
        [emit_u16(emit_op(c1, OpCode.JumpIfFalse), U16Max) EXCEPT
            !.loops = Append(@, [start |-> Len(c.chunk.code), break_jumps |-> <<>>])])

\* Compiler::loop_statement after the body: the Loop back to loop_start, the
\* exit jump and the break jumps patched, the LoopInfo popped
loop_end(c3, s, loop_start, exit_jump) ==
    Let(emit_op([c3 EXCEPT !.line = s.end_line], OpCode.Loop), LAMBDA c4 :
        [emit_u16(c4, AsU16(Len(c4.chunk.code) - loop_start + 2)) EXCEPT
            !.chunk = patch_jumps(patch_jump(@, exit_jump),
                                  c4.loops[Len(c4.loops)].break_jumps),
            !.loops = SubSeq(@, 1, Len(@) - 1)])

\* Compiler::loop_statement
loop_statement(c, s) ==
    Then(loop_head(c, s), LAMBDA c2 :
    Then(statements(c2, s.body), LAMBDA c3 :
        loop_end(c3, s, Len(c.chunk.code), Len(c2.chunk.code) - 2)))

\* a break statement that never looks at the loop stack
break_statement_Anywhere(c, s) ==
    Let(emit_u16(emit_op(c, OpCode.Jump), U16Max), LAMBDA c1 :
        IF c.loops = <<>> THEN c1
        ELSE [c1 EXCEPT !.loops[Len(c.loops)].break_jumps =
                            Append(@, Len(c.chunk.code) + 1)])

\* Compiler::break_statement; self.error(..) makes an UnexpectedToken
break_statement(c, s) ==
    IF c.loops = <<>> THEN Fail(c, "UnexpectedToken")
    ELSE Let(emit_u16(emit_op(c, OpCode.Jump), U16Max), LAMBDA c1 :
             [c1 EXCEPT !.loops[Len(c.loops)].break_jumps =
                            Append(@, Len(c.chunk.code) + 1)])

\* Compiler::continue_statement
continue_statement(c, s) ==
    IF c.loops = <<>> THEN Fail(c, "UnexpectedToken")
    ELSE emit_u16(emit_op(c, OpCode.Loop),
                  AsU16(Len(c.chunk.code) - c.loops[Len(c.loops)].start + 3))

\* one turn of the arm loop of match_expression; the operand of the Jump it
\* ends with is what end_jumps gets
match_arm(c0, arm) ==
    Let(emit_op([c0 EXCEPT !.line = arm.line], OpCode.Dup), LAMBDA c :
        IF arm.pattern = <<>>
        THEN Then(statements(emit_op(c, OpCode.Pop), arm.body), LAMBDA c3 :
                 emit_u16(emit_op(c3, OpCode.Jump), U16Max))
        ELSE Then(expression(c, arm.pattern[1]), LAMBDA c1 :
             Let(emit_u16(emit_op(emit_op(c1, OpCode.Eq), OpCode.JumpIfFalse), U16Max),
                 LAMBDA c2 :
             Then(statements(c2, arm.body), LAMBDA c3 :
                 [emit_u16(emit_op(c3, OpCode.Jump), U16Max) EXCEPT
                     !.chunk = patch_jump(@, Len(c2.chunk.code) - 2)]))))

RECURSIVE match_arms(_, _, _)
\* `while self.check_symbol(SymbolMeaning::MatchArm) { .. }`: [c, end_jumps]
match_arms(c, arms, end_jumps) ==
    IF arms = <<>> \/ c.err # NoError THEN [c |-> c, end_jumps |-> end_jumps]
    ELSE Let(match_arm(c, Head(arms)), LAMBDA c1 :
             match_arms(c1, Tail(arms), Append(end_jumps, Len(c1.chunk.code) - 2)))

\* the last element first
Reversed(seq) == [i \in 1..Len(seq) |-> seq[Len(seq) + 1 - i]]

\* a match_expression that compiles the last arm first
match_expression_LastArmFirst(c, s) ==
    Then(expression(c, s.expr), LAMBDA c1 :
    Let(match_arms(c1, Reversed(s.arms), <<>>), LAMBDA a :
    Then(a.c, LAMBDA c2 :
        [emit_op([c2 EXCEPT !.line = s.end_line], OpCode.Pop) EXCEPT
            !.chunk = patch_jumps(@, a.end_jumps)])))

\* Compiler::match_expression
match_expression(c, s) ==
    Then(expression(c, s.expr), LAMBDA c1 :
    Let(match_arms(c1, s.arms, <<>>), LAMBDA a :
    Then(a.c, LAMBDA c2 :
        [emit_op([c2 EXCEPT !.line = s.end_line], OpCode.Pop) EXCEPT
            !.chunk = patch_jumps(@, a.end_jumps)])))

\* the head of a catch block: Catch var_idx when a variable is bound
catch_head(c, s) ==
    IF s.var = <<>> THEN c
    ELSE Let(add_string(c.chunk, s.var[1]), LAMBDA a :
             emit_u16(emit_op([c EXCEPT !.chunk = a.chunk], OpCode.Catch), a.idx))

\* Compiler::try_statement
try_statement(c, s) ==
    LET handler_jump == Len(c.chunk.code) + 1
    IN
    Then(statements(emit_u16(emit_op(c, OpCode.TryBegin), U16Max), s.body), LAMBDA c2 :
    Let(emit_op(emit_op(c2, OpCode.TryEnd), OpCode.Jump), LAMBDA c3 :
    Let([emit_u16(c3, U16Max) EXCEPT !.chunk = patch_jump(@, handler_jump)], LAMBDA c4 :
    Then(IF ~s.catch THEN c4
         ELSE statements(catch_head([c4 EXCEPT !.line = s.catch_line], s), s.catch_body),
         LAMBDA c5 :
    Then(IF ~s.finally THEN c5
         ELSE statements(emit_op([c5 EXCEPT !.line = s.finally_line], OpCode.Finally),
                         s.finally_body),
         LAMBDA c6 :
        [c6 EXCEPT !.line = s.end_line,
                   !.chunk = patch_jump(@, Len(c3.chunk.code))])))))

\* Compiler::statement: the dispatch on the leading token
statement(c0, s) ==
    Let([c0 EXCEPT !.line = s.line], LAMBDA c :
        CASE s.k = "VarDecl" -> variable_declaration(c, s)
          [] s.k = "Assign" -> assignment(c, s)
          [] s.k = "SimpleAssign" -> simple_assignment(c, s)
          [] s.k = "Output" -> output_statement(c, s)
          [] s.k = "EndProgram" -> [emit_op(c, OpCode.Halt) EXCEPT !.had_end_program = TRUE]
          [] s.k = "Function" -> function_definition(c, s)
          [] s.k = "Loop" -> loop_statement(c, s)
          [] s.k = "Break" -> break_statement(c, s)
          [] s.k = "Continue" -> continue_statement(c, s)
          [] s.k = "Return" -> return_statement(c, s)
          [] s.k = "Try" -> try_statement(c, s)
          [] s.k = "MapDecl" -> map_declaration(c, s)
          [] s.k = "Match" -> match_expression(c, s)
          [] s.k = "Throw" -> throw_statement(c, s)
          [] s.k = "Push" -> push_statement(c, s)
          [] s.k = "Pop" -> emit_op(c, OpCode.Pop))

\* the loops `while ... { self.statement()?; }`
statements(c, ss) ==
    IF ss = <<>> \/ c.err # NoError THEN c
    ELSE statements(statement(c, Head(ss)), Tail(ss))

\* a compile that hands the chunk back without looking at had_end_program
compile_Unchecked(src) ==
    Let(statements(Compiler_new, src), LAMBDA c :
        IF c.err # NoError THEN [ok |-> FALSE, err |-> c.err]
        ELSE [ok |-> TRUE, chunk |-> c.chunk])

\* Compiler::compile: [ok, chunk] or [ok, err]
compile(src) ==
    Let(statements(Compiler_new, src), LAMBDA c :
        IF c.err # NoError THEN [ok |-> FALSE, err |-> c.err]
        ELSE IF ~c.had_end_program THEN [ok |-> FALSE, err |-> "MissingEndProgram"]
        ELSE [ok |-> TRUE, chunk |-> c.chunk])

-----------------------------------------------------------------------------
(* serialize.rs: a writer is the sequence of bytes written so far; a read  *)
(* gives [ok, val, pos] (pos: the bytes consumed so far) or [ok, err].     *)
(* Constants of the modelled chunks are Integer, String, Boolean, Null,    *)
(* Function and Closure values.                                            *)

\* b"OBFK"
MAGIC == <<79, 66, 70, 75>>

VERSION_MAJOR == 1
VERSION_MINOR == 0
VERSION_PATCH == 0

\* str::as_bytes for the strings of the modelled programs (their UTF-8 bytes)
Utf8 ==
    ("" :> <<>>) @@ ("main" :> <<109, 97, 105, 110>>) @@ ("test" :> <<116, 101, 115, 116>>)
    @@ ("x" :> <<120>>) @@ ("n" :> <<110>>) @@ ("f" :> <<102>>) @@ ("e" :> <<101>>)
    @@ ("g" :> <<103>>) @@ ("h" :> <<104>>) @@ ("make" :> <<109, 97, 107, 101>>)
    @@ ("inner" :> <<105, 110, 110, 101, 114>>) @@ ("boom" :> <<98, 111, 111, 109>>)
    @@ ("try" :> <<116, 114, 121>>) @@ ("catch" :> <<99, 97, 116, 99, 104>>)
    @@ ("finally" :> <<102, 105, 110, 97, 108, 108, 121>>) @@ ("s" :> <<115>>)
    @@ ("leave" :> <<108, 101, 97, 118, 101>>)

as_bytes(s) == Utf8[s]

\* BytecodeHeader::new
BytecodeHeader_new ==
    [magic |-> MAGIC, version_major |-> VERSION_MAJOR, version_minor |-> VERSION_MINOR,
     version_patch |-> VERSION_PATCH, flags |-> 0]

\* a compatibility test that looks at the minor version instead of the major
is_compatible_ByMinor(header) == header.version_minor = VERSION_MINOR

\* BytecodeHeader::is_compatible
is_compatible(header) == header.version_major = VERSION_MAJOR

\* u16::to_le_bytes, u32::to_le_bytes of a value already cast to the width
ser_write_u16(v) == <<v % 256, (v \div 256) % 256>>
ser_write_u32(v) ==
    <<v % 256, (v \div 256) % 256, (v \div 65536) % 256, (v \div 16777216) % 256>>

\* i64::to_le_bytes: two's complement, for |v| below 2^31
ser_write_i64(v) ==
    IF v >= 0
    THEN ser_write_u32(v) \o <<0, 0, 0, 0>>
    ELSE [i \in 1..4 |-> 255 - ser_write_u32(-v - 1)[i]] \o <<255, 255, 255, 255>>

\* BytecodeSerializer::write_string
ser_write_string(s) == ser_write_u16(AsU16(Len(as_bytes(s)))) \o as_bytes(s)

RECURSIVE write_value(_), write_values(_)

\* the loops `for v in .. { write_value(v) }`
write_values(vs) ==
    IF vs = <<>> THEN <<>> ELSE write_value(Head(vs)) \o write_values(Tail(vs))

\* BytecodeSerializer::write_value
write_value(value) ==
    CASE value.t = ValueType.Null -> <<ValueType.Null>>
      [] value.t = ValueType.Integer -> <<ValueType.Integer>> \o ser_write_i64(value.v)
      [] value.t = ValueType.Boolean -> <<ValueType.Boolean, IF value.v THEN 1 ELSE 0>>
      [] value.t = ValueType.String -> <<ValueType.String>> \o ser_write_string(value.v)
      [] value.t = ValueType.Function -> <<ValueType.Function>> \o ser_write_u16(AsU16(value.v))
      [] value.t = ValueType.Closure ->
            <<ValueType.Closure>> \o ser_write_u16(AsU16(value.v.function_index))
            \o ser_write_u16(AsU16(Len(value.v.captures))) \o write_values(value.v.captures)

RECURSIVE write_params(_)
write_params(params) ==
    IF params = <<>> THEN <<>>
    ELSE ser_write_string(Head(params)[1]) \o <<Head(params)[2]>> \o write_params(Tail(params))

\* BytecodeSerializer::write_function
write_function(func) ==
    ser_write_string(func.name) \o <<func.arity>>
    \o ser_write_u16(AsU16(Len(func.params))) \o write_params(func.params)
    \o ser_write_u32(func.start) \o ser_write_u32(func.length)

RECURSIVE write_strings(_), write_functions(_)
write_strings(ss) ==
    IF ss = <<>> THEN <<>> ELSE ser_write_string(Head(ss)) \o write_strings(Tail(ss))
write_lines(ls) ==
    [i \in 1..(4 * Len(ls)) |-> ser_write_u32(ls[((i - 1) \div 4) + 1])[((i - 1) % 4) + 1]]
write_functions(fs) ==
    IF fs = <<>> THEN <<>> ELSE write_function(Head(fs)) \o write_functions(Tail(fs))

\* BytecodeSerializer::serialize
serialize(ch) ==
    LET header == BytecodeHeader_new
    IN header.magic
       \o <<header.version_major, header.version_minor, header.version_patch, header.flags>>
       \o ser_write_string(ch.name)
       \o ser_write_u32(Len(ch.code)) \o ch.code
       \o ser_write_u16(AsU16(Len(ch.constants))) \o write_values(ch.constants)
       \o ser_write_u16(AsU16(Len(ch.strings))) \o write_strings(ch.strings)
       \o ser_write_u32(Len(ch.lines)) \o write_lines(ch.lines)
       \o ser_write_u16(AsU16(Len(ch.functions))) \o write_functions(ch.functions)

\* Read::read_exact on the rest of the input: n bytes, or an I/O error (unexpected EOF)
read_exact(buf, pos, n) ==
    IF pos + n > Len(buf) THEN [ok |-> FALSE, err |-> "IoError"]
    ELSE [ok |-> TRUE, val |-> SubSeq(buf, pos + 1, pos + n), pos |-> pos + n]

\* the `?` of the readers: an error is returned as it is, a read result r goes on to F(r)
Ques(r, F(_)) == IF ~r.ok THEN [ok |-> FALSE, err |-> r.err] ELSE F(r)

\* a read result with another value, at the same place in the input
Val(r, v) == [ok |-> TRUE, val |-> v, pos |-> r.pos]

\* BytecodeSerializer::read_u16, read_u32: from_le_bytes
ser_read_u16(buf, pos) ==
    Ques(read_exact(buf, pos, 2), LAMBDA r : Val(r, r.val[1] + 256 * r.val[2]))

ser_read_u32(buf, pos) ==
    Ques(read_exact(buf, pos, 4),
         LAMBDA r : Val(r, r.val[1] + 256 * r.val[2] + 65536 * r.val[3]
                           + 16777216 * r.val[4]))

\* BytecodeSerializer::read_i64: two's complement, for results below 2^31 in size
ser_read_i64(buf, pos) ==
    Ques(read_exact(buf, pos, 8),
         LAMBDA r :
            CASE SubSeq(r.val, 5, 8) = <<0, 0, 0, 0>> ->
                    Val(r, r.val[1] + 256 * r.val[2] + 65536 * r.val[3]
                           + 16777216 * r.val[4])
              [] SubSeq(r.val, 5, 8) = <<255, 255, 255, 255>> ->
                    Val(r, -((255 - r.val[1]) + 256 * (255 - r.val[2])
                             + 65536 * (255 - r.val[3]) + 16777216 * (255 - r.val[4])) - 1))

\* String::from_utf8(buf).map_err(CorruptedData), on the strings of the modelled programs
from_utf8(r) ==
    IF \E s \in DOMAIN Utf8 : Utf8[s] = r.val
    THEN Val(r, CHOOSE s \in DOMAIN Utf8 : Utf8[s] = r.val)
    ELSE [ok |-> FALSE, err |-> "CorruptedData"]

\* BytecodeSerializer::read_string
ser_read_string(buf, pos) ==
    Ques(ser_read_u16(buf, pos), LAMBDA len :
    Ques(read_exact(buf, len.pos, len.val), LAMBDA r : from_utf8(r)))

RECURSIVE read_value(_, _), read_values(_, _, _, _)

\* the loops `for _ in 0..count { push(read_value(reader)?) }`
read_values(buf, pos, count, acc) ==
    IF count = 0 THEN [ok |-> TRUE, val |-> acc, pos |-> pos]
    ELSE Ques(read_value(buf, pos),
              LAMBDA r : read_values(buf, r.pos, count - 1, Append(acc, r.val)))

\* BytecodeSerializer::read_value
read_value(buf, pos) ==
    Ques(read_exact(buf, pos, 1), LAMBDA type_byte :
        CASE type_byte.val[1] = ValueType.Null -> Val(type_byte, NullV)
          [] type_byte.val[1] = ValueType.Integer ->
                Ques(ser_read_i64(buf, type_byte.pos), LAMBDA i : Val(i, IntegerV(i.val)))
          [] type_byte.val[1] = ValueType.Boolean ->
                Ques(read_exact(buf, type_byte.pos, 1),
                     LAMBDA b : Val(b, BooleanV(b.val[1] # 0)))
          [] type_byte.val[1] = ValueType.String ->
                Ques(ser_read_string(buf, type_byte.pos), LAMBDA s : Val(s, StringV(s.val)))
          [] type_byte.val[1] = ValueType.Function ->
                Ques(ser_read_u16(buf, type_byte.pos),
                     LAMBDA idx : Val(idx, FunctionV(idx.val)))
          [] type_byte.val[1] = ValueType.Closure ->
                Ques(ser_read_u16(buf, type_byte.pos), LAMBDA func_idx :
                Ques(ser_read_u16(buf, func_idx.pos), LAMBDA cap_count :
                Ques(read_values(buf, cap_count.pos, cap_count.val, <<>>), LAMBDA captures :
                    Val(captures, ClosureVal(Closure_new(func_idx.val, captures.val))))))
          [] type_byte.val[1] > ValueType.Module ->
                [ok |-> FALSE, err |-> "UnknownValueType"])

\* the parameter loop of read_function
RECURSIVE read_params(_, _, _, _)
read_params(buf, pos, count, acc) ==
    IF count = 0 THEN [ok |-> TRUE, val |-> acc, pos |-> pos]
    ELSE Ques(ser_read_string(buf, pos), LAMBDA param_name :
         Ques(read_exact(buf, param_name.pos, 1), LAMBDA type_byte :
            read_params(buf, type_byte.pos, count - 1,
                        Append(acc, <<param_name.val, type_byte.val[1]>>))))

\* BytecodeSerializer::read_function
read_function(buf, pos) ==
    Ques(ser_read_string(buf, pos), LAMBDA name :
    Ques(read_exact(buf, name.pos, 1), LAMBDA arity :
    Ques(ser_read_u16(buf, arity.pos), LAMBDA param_count :
    Ques(read_params(buf, param_count.pos, param_count.val, <<>>), LAMBDA params :
    Ques(ser_read_u32(buf, params.pos), LAMBDA start :
    Ques(ser_read_u32(buf, start.pos), LAMBDA length :
        Val(length, FunctionInfo_new(name.val, arity.val[1], params.val,
                                     start.val, length.val))))))))

\* the loops of deserialize over the strings, the lines and the functions
RECURSIVE read_strings(_, _, _, _), read_functions(_, _, _, _)
read_strings(buf, pos, count, acc) ==
    IF count = 0 THEN [ok |-> TRUE, val |-> acc, pos |-> pos]
    ELSE Ques(ser_read_string(buf, pos),
              LAMBDA r : read_strings(buf, r.pos, count - 1, Append(acc, r.val)))
\* the lines are `count` words of four bytes; the first read past the end of
\* the input ends the loop with its error
read_lines(buf, pos, count) ==
    IF pos + 4 * count > Len(buf) THEN [ok |-> FALSE, err |-> "IoError"]
    ELSE [ok |-> TRUE,
          val |-> [i \in 1..count |-> ser_read_u32(buf, pos + 4 * (i - 1)).val],
          pos |-> pos + 4 * count]
read_functions(buf, pos, count, acc) ==
    IF count = 0 THEN [ok |-> TRUE, val |-> acc, pos |-> pos]
    ELSE Ques(read_function(buf, pos),
              LAMBDA r : read_functions(buf, r.pos, count - 1, Append(acc, r.val)))

\* the header deserialize builds from the four bytes after the magic
BytecodeHeader_read(magic, version) ==
    [magic |-> magic, version_major |-> version[1], version_minor |-> version[2],
     version_patch |-> version[3], flags |-> version[4]]

\* BytecodeSerializer::deserialize, section by section.  Each section maps
\* what was read so far, [ok, pos, chunk] or an error, to what is read after it.

\* "Read and verify header"
deserialize_header(buf) ==
    Ques(read_exact(buf, 0, 4), LAMBDA magic :
    IF magic.val # MAGIC THEN [ok |-> FALSE, err |-> "InvalidMagic"] ELSE
    Ques(read_exact(buf, magic.pos, 4), LAMBDA version :
    IF ~is_compatible(BytecodeHeader_read(magic.val, version.val))
    THEN [ok |-> FALSE, err |-> "IncompatibleVersion"]
    ELSE [ok |-> TRUE, pos |-> version.pos]))

\* "Read chunk name"
deserialize_name(buf, d) ==
    Ques(d, LAMBDA header :
    Ques(ser_read_string(buf, header.pos), LAMBDA name :
        [ok |-> TRUE, pos |-> name.pos, chunk |-> Chunk_new(name.val)]))

\* "Read code section"
deserialize_code(buf, d) ==
    Ques(d, LAMBDA c :
    Ques(ser_read_u32(buf, c.pos), LAMBDA code_len :
    Ques(read_exact(buf, code_len.pos, code_len.val), LAMBDA code :
        [c EXCEPT !.pos = code.pos, !.chunk.code = code.val])))

\* "Read constants"
deserialize_constants(buf, d) ==
    Ques(d, LAMBDA c :
    Ques(ser_read_u16(buf, c.pos), LAMBDA const_count :
    Ques(read_values(buf, const_count.pos, const_count.val, <<>>), LAMBDA constants :
        [c EXCEPT !.pos = constants.pos, !.chunk.constants = constants.val])))

\* "Read strings"
deserialize_strings(buf, d) ==
    Ques(d, LAMBDA c :
    Ques(ser_read_u16(buf, c.pos), LAMBDA string_count :
    Ques(read_strings(buf, string_count.pos, string_count.val, <<>>), LAMBDA strings :
        [c EXCEPT !.pos = strings.pos, !.chunk.strings = strings.val])))

\* "Read line numbers"
deserialize_lines(buf, d) ==
    Ques(d, LAMBDA c :
    Ques(ser_read_u32(buf, c.pos), LAMBDA lines_count :
    Ques(read_lines(buf, lines_count.pos, lines_count.val), LAMBDA lines :
        [c EXCEPT !.pos = lines.pos, !.chunk.lines = lines.val])))

\* "Read functions"
deserialize_functions(buf, d) ==
    Ques(d, LAMBDA c :
    Ques(ser_read_u16(buf, c.pos), LAMBDA func_count :
    Ques(read_functions(buf, func_count.pos, func_count.val, <<>>), LAMBDA functions :
        [c EXCEPT !.pos = functions.pos, !.chunk.functions = functions.val])))

\* BytecodeSerializer::deserialize: [ok, chunk] or [ok, err]
deserialize(buf) ==
    Ques(deserialize_functions(buf,
         deserialize_lines(buf,
         deserialize_strings(buf,
         deserialize_constants(buf,
         deserialize_code(buf,
         deserialize_name(buf,
         deserialize_header(buf))))))),
         LAMBDA c : [ok |-> TRUE, chunk |-> c.chunk])

\* read_function transmutes each parameter's type byte: the chunks deserialize
\* can hand back when it read the bytes that c holds as parameter types
transmuted_params(params) ==
    { [i \in 1..Len(params) |-> <<params[i][1], ts[i]>>] :
        ts \in { t \in [1..Len(params) ->
                           UNION {transmute_ValueType(params[i][2]) : i \in 1..Len(params)}] :
                    \A i \in 1..Len(params) : t[i] \in transmute_ValueType(params[i][2]) } }
transmuted(c) ==
    IF \A i \in 1..Len(c.functions) : \A j \in 1..Len(c.functions[i].params) :
          c.functions[i].params[j][2] \in DefinedValueTypes
    THEN {c}
    ELSE { [c EXCEPT !.functions = [i \in 1..Len(c.functions) |->
                                       [c.functions[i] EXCEPT !.params = ps[i]]]] :
             ps \in { q \in [1..Len(c.functions) ->
                               UNION {transmuted_params(c.functions[i].params) :
                                        i \in 1..Len(c.functions)}] :
                         \A i \in 1..Len(c.functions) :
                             q[i] \in transmuted_params(c.functions[i].params) } }

-----------------------------------------------------------------------------
(* vm/stack.rs, vm/context.rs: the machine is the record of the Runtime's  *)
(* mutable parts; an operation maps a machine to a machine, err carrying   *)
(* the error a `?` returned with (what was done before the error stays     *)
(* done).                                                                  *)

MAX_STACK_DEPTH == 65536
MAX_CALL_DEPTH == 1024

Ok(m) == m.err = NoError
Err(m, e) == [m EXCEPT !.err = e]

\* Stack::push
push(m, value) ==
    IF ~Ok(m) THEN m
    ELSE IF Len(m.stack) >= MAX_STACK_DEPTH THEN Err(m, "Overflow")
    ELSE [m EXCEPT !.stack = Append(@, value)]

\* Stack::pop: peek(m) is the value pop(m) returns
peek(m) == m.stack[Len(m.stack)]
pop(m) ==
    IF ~Ok(m) THEN m
    ELSE IF m.stack = <<>> THEN Err(m, "Underflow")
    ELSE [m EXCEPT !.stack = SubSeq(@, 1, Len(@) - 1)]

\* the loops `for _ in 0..arity { args.push(self.stack.pop()?) }; args.reverse()`
RECURSIVE pop_args(_, _)
pop_args(m, arity) == IF arity = 0 THEN m ELSE pop_args(pop(m), arity - 1)
args_of(m, arity) == SubSeq(m.stack, Len(m.stack) - arity + 1, Len(m.stack))

\* Variable::new
Variable_new(value, var_type, optional) ==
    [value |-> value, var_type |-> var_type, optional |-> optional, mutable |-> TRUE]

\* Scope::new, Scope::declare ([ok, scope]), Scope::contains
Scope_new == <<>>
Scope_contains(scope, name) == name \in DOMAIN scope
Scope_declare(scope, name, var) ==
    IF Scope_contains(scope, name) THEN [ok |-> FALSE, scope |-> scope]
    ELSE [ok |-> TRUE, scope |-> (name :> var) @@ scope]

\* CallFrame::new, CallFrame::with_closure: closure is <<>> (None) or <<c>> (Some(c))
CallFrame_new(chunk_index, base_pointer, name) ==
    [chunk_index |-> chunk_index, ip |-> 0, base_pointer |-> base_pointer,
     scope |-> Scope_new, name |-> name, closure |-> <<>>]
CallFrame_with_closure(chunk_index, base_pointer, name, closure) ==
    [CallFrame_new(chunk_index, base_pointer, name) EXCEPT !.closure = <<closure>>]

\* ExceptionHandler::new
ExceptionHandler_new(handler_ip, stack_depth, frame_depth, chunk_index) ==
    [handler_ip |-> handler_ip, finally_ip |-> <<>>, stack_depth |-> stack_depth,
     frame_depth |-> frame_depth, chunk_index |-> chunk_index]

\* Context::call_depth
call_depth(m) == Len(m.frames)

\* a push_frame that never looks at the depth
push_frame_Unbounded(m, frame) ==
    IF ~Ok(m) THEN m ELSE [m EXCEPT !.frames = Append(@, frame)]

\* Context::push_frame
push_frame(m, frame) ==
    IF ~Ok(m) THEN m
    ELSE IF Len(m.frames) >= MAX_CALL_DEPTH THEN Err(m, "CallStackOverflow")
    ELSE [m EXCEPT !.frames = Append(@, frame)]

\* a pop_frame that hands the popped frame's variables to the frame below
pop_frame_KeepingScope(m) ==
    IF ~Ok(m) THEN m
    ELSE IF m.frames = <<>> THEN Err(m, "CallStackUnderflow")
    ELSE IF Len(m.frames) = 1 THEN [m EXCEPT !.frames = <<>>]
    ELSE [m EXCEPT !.frames =
             [SubSeq(@, 1, Len(@) - 1) EXCEPT
                 ![Len(m.frames) - 1].scope = m.frames[Len(m.frames)].scope @@ @]]

\* Context::pop_frame
pop_frame(m) ==
    IF ~Ok(m) THEN m
    ELSE IF m.frames = <<>> THEN Err(m, "CallStackUnderflow")
    ELSE [m EXCEPT !.frames = SubSeq(@, 1, Len(@) - 1)]

\* a declare_variable that inserts whether or not the scope has the name
declare_variable_Overwriting(m, name, value, var_type, optional) ==
    LET var == Variable_new(value, var_type, optional)
        n == Len(m.frames)
    IN IF ~Ok(m) THEN m
       ELSE IF n > 0 THEN [m EXCEPT !.frames[n].scope = (name :> var) @@ @]
       ELSE [m EXCEPT !.globals = (name :> var) @@ @]

\* Context::declare_variable: in the current frame's scope, or the globals without a frame
declare_variable(m, name, value, var_type, optional) ==
    LET var == Variable_new(value, var_type, optional)
        n == Len(m.frames)
        d == IF n > 0 THEN Scope_declare(m.frames[n].scope, name, var)
             ELSE Scope_declare(m.globals, name, var)
    IN IF ~Ok(m) THEN m
       ELSE IF ~d.ok THEN Err(m, "DuplicateVariable")
       ELSE IF n > 0 THEN [m EXCEPT !.frames[n].scope = d.scope]
       ELSE [m EXCEPT !.globals = d.scope]

\* `for frame in self.frames.iter().rev()`: the innermost frame whose scope has
\* the name, or 0 when no frame has it
frame_of(fs, name) ==
    IF \E i \in 1..Len(fs) : Scope_contains(fs[i].scope, name)
    THEN CHOOSE i \in 1..Len(fs) :
            /\ Scope_contains(fs[i].scope, name)
            /\ \A j \in (i + 1)..Len(fs) : ~Scope_contains(fs[j].scope, name)
    ELSE 0

\* Context::get_variable: [ok, value]
get_variable(m, name) ==
    LET i == frame_of(m.frames, name)
    IN IF i > 0 THEN [ok |-> TRUE, value |-> m.frames[i].scope[name].value]
       ELSE IF Scope_contains(m.globals, name)
       THEN [ok |-> TRUE, value |-> m.globals[name].value]
       ELSE [ok |-> FALSE, value |-> NullV]

\* Context::set_variable
set_variable(m, name, value) ==
    LET i == frame_of(m.frames, name)
        var == IF i > 0 THEN m.frames[i].scope[name] ELSE m.globals[name]
    IN IF ~Ok(m) THEN m
       ELSE IF i > 0
       THEN IF ~var.optional /\ value.t = ValueType.Null THEN Err(m, "NullAssignment")
            ELSE IF value_type(var.value) # value_type(value) /\ value.t # ValueType.Null
            THEN Err(m, "TypeMismatch")
            ELSE [m EXCEPT !.frames[i].scope[name].value = value]
       ELSE IF Scope_contains(m.globals, name)
       THEN IF ~var.optional /\ value.t = ValueType.Null THEN Err(m, "NullAssignment")
            ELSE [m EXCEPT !.globals[name].value = value]
       ELSE Err(m, "UndeclaredVariable")

-----------------------------------------------------------------------------
(* vm/runtime.rs: execute_instruction.  exec_X(m) is the arm of opcode X,  *)
(* m being the machine after the run loop advanced ip past the opcode.     *)

\* Context::get_chunk(chunk_index): every frame's chunk_index is 0
chunk == chunks[1]

\* the current frame's ip
ip_of(m) == m.frames[Len(m.frames)].ip

\* Runtime::read_byte: byte_at(m) is the byte read_byte(m) returns
byte_at(m) == chunk.code[ip_of(m) + 1]
read_byte(m) ==
    IF ~Ok(m) THEN m
    ELSE IF m.frames = <<>> THEN Err(m, "UniverseCorruption")
    ELSE IF ip_of(m) >= Len(chunk.code) THEN Err(m, "InvalidBytecode")
    ELSE [m EXCEPT !.frames[Len(m.frames)].ip = @ + 1]

\* Runtime::read_u16: u16_at(m) is the value read_u16(m) returns, (high << 8) | low
u16_at(m) == read_u16_at(chunk.code, ip_of(m))
read_u16(m) == read_byte(read_byte(m))

\* `frame.ip = x` through current_frame_mut(): nothing without a frame
set_ip(m, x) ==
    IF ~Ok(m) \/ m.frames = <<>> THEN m
    ELSE [m EXCEPT !.frames[Len(m.frames)].ip = x]

\* OpCode::Const
exec_Const(m) ==
    LET m1 == read_u16(m)
        idx == u16_at(m)
    IN IF ~Ok(m1) THEN m1
       ELSE IF idx >= Len(chunk.constants) THEN Err(m1, "InvalidBytecode")
       ELSE push(m1, chunk.constants[idx + 1])

\* OpCode::Null
exec_Null(m) == push(m, NullV)

\* OpCode::Pop
exec_Pop(m) == pop(m)

\* OpCode::DeclareVar, var_type being what the transmute of its type byte gave
exec_DeclareVar(m, var_type) ==
    LET m1 == read_u16(m)
        name_idx == u16_at(m)
        m2 == read_byte(m1)
        m3 == pop(m2)
        value == peek(m2)
        optional == value.t = ValueType.Null
    IN IF ~Ok(m2) THEN m2
       ELSE IF name_idx >= Len(chunk.strings) THEN Err(m2, "InvalidBytecode")
       ELSE IF ~Ok(m3) THEN m3
       ELSE declare_variable(m3, chunk.strings[name_idx + 1], value, var_type, optional)

\* OpCode::LoadVar
exec_LoadVar(m) ==
    LET m1 == read_u16(m)
        name_idx == u16_at(m)
        r == get_variable(m1, chunk.strings[name_idx + 1])
    IN IF ~Ok(m1) THEN m1
       ELSE IF name_idx >= Len(chunk.strings) THEN Err(m1, "InvalidBytecode")
       ELSE IF ~r.ok THEN Err(m1, "UndeclaredVariable")
       ELSE push(m1, r.value)

\* OpCode::StoreVar
exec_StoreVar(m) ==
    LET m1 == read_u16(m)
        name_idx == u16_at(m)
        m2 == pop(m1)
    IN IF ~Ok(m1) THEN m1
       ELSE IF name_idx >= Len(chunk.strings) THEN Err(m1, "InvalidBytecode")
       ELSE IF ~Ok(m2) THEN m2
       ELSE set_variable(m2, chunk.strings[name_idx + 1], peek(m1))

\* OpCode::Jump
exec_Jump(m) ==
    LET m1 == read_u16(m)
    IN set_ip(m1, ip_of(m1) + u16_at(m))

\* OpCode::JumpIfFalse
exec_JumpIfFalse(m) ==
    LET m1 == read_u16(m)
        m2 == pop(m1)
    IN IF ~Ok(m2) \/ is_truthy(peek(m1)) THEN m2
       ELSE set_ip(m2, ip_of(m2) + u16_at(m))

\* OpCode::Loop: `frame.ip -= offset`, which panics on a usize below zero (a
\* build without overflow checks wraps to an ip past the end of the code)
exec_Loop(m) ==
    LET m1 == read_u16(m)
    IN IF ~Ok(m1) THEN m1
       ELSE IF u16_at(m) > ip_of(m1) THEN Err(m1, "panic: attempt to subtract with overflow")
       ELSE set_ip(m1, ip_of(m1) - u16_at(m))

\* `for (i, (param_name, param_type)) in func_info.params.iter().enumerate()`
RECURSIVE bind_params(_, _, _, _)
bind_params(m, params, args, i) ==
    IF i > Len(params) \/ ~Ok(m) THEN m
    ELSE bind_params(declare_variable(m, params[i][1],
                                      IF i <= Len(args) THEN args[i] ELSE NullV,
                                      params[i][2], FALSE),
                     params, args, i + 1)

\* what OpCode::Call and both callable arms of OpCode::CallClosure do once the
\* function is known: pop the arguments, push the frame, bind the parameters,
\* jump to the function's start
enter_function(m, func_idx, arity, closure) ==
    LET func_info == chunk.functions[func_idx + 1]
        m1 == pop_args(m, arity)
        frame == IF closure = <<>>
                 THEN CallFrame_new(0, Len(m1.stack), func_info.name)
                 ELSE CallFrame_with_closure(0, Len(m1.stack), func_info.name, closure[1])
        m2 == push_frame(m1, frame)
        m3 == bind_params(m2, func_info.params, args_of(m, arity), 1)
    IN IF ~Ok(m) THEN m
       ELSE IF func_idx >= Len(chunk.functions) THEN Err(m, "InvalidBytecode")
       ELSE IF ~Ok(m1) THEN m1
       ELSE set_ip(m3, func_info.start)

\* OpCode::Call
exec_Call(m) ==
    LET m1 == read_u16(m)
        func_idx == u16_at(m)
        m2 == read_byte(m1)
        arity == byte_at(m1)
    IN IF ~Ok(m2) THEN m2 ELSE enter_function(m2, func_idx, arity, <<>>)

\* OpCode::Return
exec_Return(m) ==
    LET result_value == IF m.stack = <<>> THEN NullV ELSE peek(m)
        m1 == IF m.stack = <<>> THEN m ELSE pop(m)
    IN push(pop_frame(m1), result_value)

\* OpCode::LoadFunc
exec_LoadFunc(m) == push(read_u16(m), FunctionV(u16_at(m)))

\* OpCode::CallClosure
exec_CallClosure(m) ==
    LET m1 == read_byte(m)
        arity == byte_at(m)
        m2 == pop(m1)
        closure_val == peek(m1)
    IN IF ~Ok(m2) THEN m2
       ELSE CASE closure_val.t = ValueType.Closure ->
                    enter_function(m2, closure_val.v.function_index, arity, <<closure_val.v>>)
              [] closure_val.t = ValueType.Function ->
                    enter_function(m2, closure_val.v, arity, <<>>)
              [] OTHER -> Err(m2, "TypeMismatch")

\* OpCode::MakeClosure
exec_MakeClosure(m) ==
    LET m1 == read_u16(m)
        func_idx == u16_at(m)
        m2 == read_byte(m1)
        capture_count == byte_at(m1)
        m3 == pop_args(m2, capture_count)
    IN IF ~Ok(m3) THEN m3
       ELSE push(m3, ClosureVal(Closure_new(func_idx, args_of(m2, capture_count))))

\* a LoadCapture that reads the captured name's variable where one is in reach
\* (capture by reference) and the stored capture otherwise
exec_LoadCapture_ByReference(m) ==
    LET m1 == read_u16(m)
        capture_idx == u16_at(m)
        frame == m1.frames[Len(m1.frames)]
        names == chunks[1].functions[frame.closure[1].function_index + 1].capture_names
    IN IF ~Ok(m1) THEN m1
       ELSE IF frame.closure = <<>> THEN Err(m1, "TypeMismatch")
       ELSE IF capture_idx >= Len(frame.closure[1].captures) THEN Err(m1, "InvalidBytecode")
       ELSE IF capture_idx < Len(names) /\ get_variable(m1, names[capture_idx + 1]).ok
       THEN push(m1, get_variable(m1, names[capture_idx + 1]).value)
       ELSE push(m1, frame.closure[1].captures[capture_idx + 1])

\* OpCode::LoadCapture
exec_LoadCapture(m) ==
    LET m1 == read_u16(m)
        capture_idx == u16_at(m)
        frame == m1.frames[Len(m1.frames)]
    IN IF ~Ok(m1) THEN m1
       ELSE IF frame.closure = <<>> THEN Err(m1, "TypeMismatch")
       ELSE IF capture_idx >= Len(frame.closure[1].captures) THEN Err(m1, "InvalidBytecode")
       ELSE push(m1, frame.closure[1].captures[capture_idx + 1])

\* OpCode::StoreCapture
exec_StoreCapture(m) ==
    LET m1 == read_u16(m)
        capture_idx == u16_at(m)
        m2 == pop(m1)
        value == peek(m1)
        n == Len(m2.frames)
    IN IF ~Ok(m2) THEN m2
       ELSE IF m2.frames[n].closure = <<>> THEN Err(m2, "TypeMismatch")
       ELSE IF capture_idx >= Len(m2.frames[n].closure[1].captures)
       THEN Err(m2, "InvalidBytecode")
       ELSE [m2 EXCEPT !.frames[n].closure[1].captures[capture_idx + 1] = value]

\* OpCode::TryBegin
exec_TryBegin(m) ==
    LET m1 == read_u16(m)
        handler_ip == ip_of(m1) + u16_at(m)
    IN IF ~Ok(m1) THEN m1
       ELSE [m1 EXCEPT !.exception_handlers =
                Append(@, ExceptionHandler_new(handler_ip, Len(m1.stack),
                                               call_depth(m1), 0))]

\* OpCode::TryEnd: pop_exception_handler() gives None without a handler
exec_TryEnd(m) ==
    IF m.exception_handlers = <<>> THEN m
    ELSE [m EXCEPT !.exception_handlers = SubSeq(@, 1, Len(@) - 1)]

\* a Throw that, finding no handler, unwinds to the top-level frame before it fails
exec_Throw_Unwinding(m) ==
    LET m1 == pop(m)
        exception == peek(m)
        installed == m1.exception_handlers[Len(m1.exception_handlers)]
        m2 == [m1 EXCEPT
                 !.exception_handlers = SubSeq(@, 1, Len(@) - 1),
                 !.stack = IF Len(@) > installed.stack_depth
                           THEN SubSeq(@, 1, installed.stack_depth) ELSE @,
                 !.frames = IF Len(@) > installed.frame_depth
                            THEN SubSeq(@, 1, installed.frame_depth) ELSE @,
                 !.current_exception = <<exception>>]
    IN IF ~Ok(m1) THEN m1
       ELSE IF m1.exception_handlers = <<>>
       THEN Err([m1 EXCEPT !.frames = SubSeq(@, 1, 1)],
                "TypeMismatch: unhandled exception: " \o to_string_value(exception))
       ELSE set_ip(m2, installed.handler_ip)

\* a Throw that hands the exception to the handler pushed first
exec_Throw_Outermost(m) ==
    LET m1 == pop(m)
        exception == peek(m)
        handler == m1.exception_handlers[1]
        m2 == [m1 EXCEPT
                 !.exception_handlers = SubSeq(@, 1, Len(@) - 1),
                 !.stack = IF Len(@) > handler.stack_depth
                           THEN SubSeq(@, 1, handler.stack_depth) ELSE @,
                 !.frames = IF Len(@) > handler.frame_depth
                            THEN SubSeq(@, 1, handler.frame_depth) ELSE @,
                 !.current_exception = <<exception>>]
    IN IF ~Ok(m1) THEN m1
       ELSE IF m1.exception_handlers = <<>>
       THEN Err(m1, "TypeMismatch: unhandled exception: " \o to_string_value(exception))
       ELSE set_ip(m2, handler.handler_ip)

\* OpCode::Throw
exec_Throw(m) ==
    LET m1 == pop(m)
        exception == peek(m)
        handler == m1.exception_handlers[Len(m1.exception_handlers)]
        m2 == [m1 EXCEPT
                 !.exception_handlers = SubSeq(@, 1, Len(@) - 1),
                 !.stack = IF Len(@) > handler.stack_depth
                           THEN SubSeq(@, 1, handler.stack_depth) ELSE @,
                 !.frames = IF Len(@) > handler.frame_depth
                            THEN SubSeq(@, 1, handler.frame_depth) ELSE @,
                 !.current_exception = <<exception>>]
    IN IF ~Ok(m1) THEN m1
       ELSE IF m1.exception_handlers = <<>>
       THEN Err(m1, "TypeMismatch: unhandled exception: " \o to_string_value(exception))
       ELSE set_ip(m2, handler.handler_ip)

\* OpCode::Catch
exec_Catch(m) ==
    LET m1 == read_u16(m)
        var_name_idx == u16_at(m)
    IN IF ~Ok(m1) THEN m1
       ELSE IF var_name_idx >= Len(chunk.strings) THEN Err(m1, "InvalidBytecode")
       ELSE IF m1.current_exception = <<>> THEN m1
       ELSE declare_variable([m1 EXCEPT !.current_exception = <<>>],
                             chunk.strings[var_name_idx + 1], m1.current_exception[1],
                             ValueType.Null, TRUE)

\* OpCode::Finally
exec_Finally(m) == m

\* OpCode::Print
exec_Print(m) ==
    LET m1 == pop(m)
    IN IF ~Ok(m1) THEN m1
       ELSE [m1 EXCEPT !.output = Append(@, to_string_value(peek(m)))]

\* `entries.iter().position(|(k, _)| k == &key)`: 0 stands for None
entry_position(entries, key) ==
    IF \E i \in 1..Len(entries) : Value_eq(entries[i][1], key)
    THEN CHOOSE i \in 1..Len(entries) :
            /\ Value_eq(entries[i][1], key)
            /\ \A j \in 1..(i - 1) : ~Value_eq(entries[j][1], key)
    ELSE 0

\* the `other =>` arm of the map instructions
not_a_map(m) == Err(m, "TypeMismatch")

\* OpCode::MakeMap: the loop `for _ in 0..pair_count`, entries in popping order
RECURSIVE pop_pairs(_, _)
pop_pairs(m, pair_count) ==
    IF pair_count = 0 \/ ~Ok(m.m) THEN m
    ELSE LET value == peek(m.m)
             m1 == pop(m.m)
             key == peek(m1)
             m2 == pop(m1)
         IN IF ~Ok(m2) THEN [m EXCEPT !.m = m2]
            ELSE pop_pairs([m |-> m2, entries |-> Append(m.entries, <<key, value>>)],
                           pair_count - 1)

\* OpCode::MakeMap
exec_MakeMap(m) ==
    LET m1 == read_u16(m)
        popped == pop_pairs([m |-> m1, entries |-> <<>>], u16_at(m))
        n == Len(popped.entries)
    IN IF ~Ok(m1) THEN m1
       ELSE push(popped.m, MapV([i \in 1..n |-> popped.entries[n + 1 - i]]))

\* OpCode::MapSet
exec_MapSet(m) ==
    LET value == peek(m)
        m1 == pop(m)
        key == peek(m1)
        m2 == pop(m1)
        map == peek(m2)
        m3 == pop(m2)
        pos == entry_position(map.v, key)
    IN IF ~Ok(m3) THEN m3
       ELSE IF map.t # ValueType.Map THEN not_a_map(m3)
       ELSE push(m3, MapV(IF pos > 0 THEN [map.v EXCEPT ![pos] = <<key, value>>]
                          ELSE Append(map.v, <<key, value>>)))

\* OpCode::MapRemove
exec_MapRemove(m) ==
    LET key == peek(m)
        m1 == pop(m)
        map == peek(m1)
        m2 == pop(m1)
    IN IF ~Ok(m2) THEN m2
       ELSE IF map.t # ValueType.Map THEN not_a_map(m2)
       ELSE push(m2, MapV(SelectSeq(map.v, LAMBDA e : ~Value_eq(e[1], key))))

\* OpCode::MapKeys, OpCode::MapValues
exec_MapKeys(m) ==
    LET map == peek(m)
        m1 == pop(m)
    IN IF ~Ok(m1) THEN m1
       ELSE IF map.t # ValueType.Map THEN not_a_map(m1)
       ELSE push(m1, ArrayV([i \in 1..Len(map.v) |-> map.v[i][1]]))
exec_MapValues(m) ==
    LET map == peek(m)
        m1 == pop(m)
    IN IF ~Ok(m1) THEN m1
       ELSE IF map.t # ValueType.Map THEN not_a_map(m1)
       ELSE push(m1, ArrayV([i \in 1..Len(map.v) |-> map.v[i][2]]))

\* OpCode::Dup: Stack::dup
exec_Dup(m) == IF ~Ok(m) THEN m ELSE IF m.stack = <<>> THEN Err(m, "Underflow")
               ELSE push(m, peek(m))

\* OpCode::Eq: b is popped first, then a
exec_Eq(m) ==
    LET m1 == pop(m)
        m2 == pop(m1)
    IN IF ~Ok(m2) THEN m2 ELSE push(m2, BooleanV(Value_eq(peek(m1), peek(m))))

\* OpCode::Halt
exec_Halt(m) == [m EXCEPT !.halted = TRUE]

\* i64.  TLC's integers are narrower than the program's, so an integer far
\* from zero is written by its distance from a power of two: [top, hi, lo]
\* is top * 2^126 + hi * 2^63 + lo, the coefficients small against 2^63.
\* Sums, differences and products of such records are exact, no two records
\* write the same integer, and the i64 are the records that fit_i64.
Wide(hi, lo) == [top |-> 0, hi |-> hi, lo |-> lo]
I64_MIN == Wide(-1, 0)
I64_MAX == Wide(1, -1)
fits_i64(w) ==
    /\ w.top = 0
    /\ \/ w.hi = 0
       \/ w.hi = 1 /\ w.lo < 0
       \/ w.hi = -1 /\ w.lo >= 0

Sum(x, y) == [top |-> x.top + y.top, hi |-> x.hi + y.hi, lo |-> x.lo + y.lo]
Opposite(x) == [top |-> -x.top, hi |-> -x.hi, lo |-> -x.lo]
Difference(x, y) == Sum(x, Opposite(y))
\* of two i64
Product(x, y) ==
    [top |-> x.hi * y.hi, hi |-> x.hi * y.lo + x.lo * y.hi, lo |-> x.lo * y.lo]

\* the quotient rounded towards zero, of integers of TLC
Truncated(a, b) ==
    LET q == (IF a < 0 THEN -a ELSE a) \div (IF b < 0 THEN -b ELSE b)
    IN IF (a < 0) # (b < 0) THEN -q ELSE q

\* the quotient of two i64 rounded towards zero, y not 0.  The quotient of an
\* integer far from zero by one near zero other than 1 and -1 has no such
\* record: Divides(x, y) tells the pairs the quotient is written for.
Divides(x, y) == x.hi = 0 \/ y.hi # 0 \/ y.lo \in {1, -1}
Quotient(x, y) ==
    CASE y.hi = 0 /\ y.lo = 1 -> x
      [] y.hi = 0 /\ y.lo = -1 -> Opposite(x)
      [] y.hi = 0 /\ y.lo \notin {1, -1} /\ x.hi = 0 -> Wide(0, Truncated(x.lo, y.lo))
      [] y.hi # 0 /\ x.hi = 0 -> Wide(0, 0)
      [] y.hi # 0 /\ x.hi # 0 ->
            \* |x| is 2^63 + ax and |y| is 2^63 + ay
            LET ax == x.hi * x.lo
                ay == y.hi * y.lo
            IN Wide(0, IF ax >= ay THEN x.hi * y.hi ELSE 0)
Remainder(x, y) == Difference(x, Product(Quotient(x, y), y))

\* i64::wrapping_*: the result modulo 2^64, which is twice 2^63
Wrap(w) ==
    IF w.hi % 2 = 0 THEN Wide(0, w.lo)
    ELSE IF w.lo < 0 THEN Wide(1, w.lo) ELSE Wide(-1, w.lo)

\* i64::checked_add, checked_sub, checked_mul, checked_div, checked_neg:
\* an Option, <<r>> for Some(r) and <<>> for None
Checked(w) == IF fits_i64(w) THEN <<w>> ELSE <<>>
\* (were the sum taken with wrapping_add)
checked_add_Wrapping(x, y) == <<Wrap(Sum(x, y))>>
checked_add(x, y) == Checked(Sum(x, y))
checked_sub(x, y) == Checked(Difference(x, y))
checked_mul(x, y) == Checked(Product(x, y))
checked_div(x, y) ==
    IF y = Wide(0, 0) THEN <<>> ELSE Checked(Quotient(x, y))
checked_neg(x) == Checked(Opposite(x))

\* a RuntimeResult<Value>
Value_Ok(v) == [ok |-> TRUE, val |-> v]
Value_Err(e) == [ok |-> FALSE, err |-> e]
ok_or(option, e) ==
    IF option = <<>> THEN Value_Err(e) ELSE Value_Ok(IntegerV(option[1]))

Both(a, b, ta, tb) == a.t = ta /\ b.t = tb
Numeric(a, b) == a.t \in {ValueType.Integer, ValueType.Real}
                 /\ b.t \in {ValueType.Integer, ValueType.Real}

\* Runtime::add.  The Reals are NaN, and so are their sums, products and
\* quotients.
add(a, b) ==
    CASE Both(a, b, ValueType.Integer, ValueType.Integer) ->
            ok_or(checked_add(a.v, b.v), "ArithmeticOverflow")
      [] Numeric(a, b) /\ ~Both(a, b, ValueType.Integer, ValueType.Integer) ->
            Value_Ok(RealNaN)
      [] Both(a, b, ValueType.String, ValueType.String) -> Value_Ok(StringV(a.v \o b.v))
      [] OTHER -> Value_Err("TypeMismatch")

\* Runtime::subtract
subtract(a, b) ==
    CASE Both(a, b, ValueType.Integer, ValueType.Integer) ->
            ok_or(checked_sub(a.v, b.v), "ArithmeticOverflow")
      [] Numeric(a, b) /\ ~Both(a, b, ValueType.Integer, ValueType.Integer) ->
            Value_Ok(RealNaN)
      [] OTHER -> Value_Err("TypeMismatch")

\* Runtime::multiply
multiply(a, b) ==
    CASE Both(a, b, ValueType.Integer, ValueType.Integer) ->
            ok_or(checked_mul(a.v, b.v), "ArithmeticOverflow")
      [] Numeric(a, b) /\ ~Both(a, b, ValueType.Integer, ValueType.Integer) ->
            Value_Ok(RealNaN)
      [] OTHER -> Value_Err("TypeMismatch")

\* Runtime::divide: a NaN divisor is not 0.0
divide(a, b) ==
    CASE Both(a, b, ValueType.Integer, ValueType.Integer) ->
            IF b.v = Wide(0, 0) THEN Value_Err("DivisionByZero")
            ELSE ok_or(checked_div(a.v, b.v), "ArithmeticOverflow")
      [] Both(a, b, ValueType.Real, ValueType.Integer) ->
            IF b.v = Wide(0, 0) THEN Value_Err("DivisionByZero") ELSE Value_Ok(RealNaN)
      [] Numeric(a, b) /\ b.t = ValueType.Real -> Value_Ok(RealNaN)
      [] OTHER -> Value_Err("TypeMismatch")

\* Runtime::modulo: `x % y` panics when the remainder overflows
modulo(a, b) ==
    CASE Both(a, b, ValueType.Integer, ValueType.Integer) ->
            IF b.v = Wide(0, 0) THEN Value_Err("DivisionByZero")
            ELSE IF a.v = I64_MIN /\ b.v = Wide(0, -1)
            THEN Value_Err("panic: attempt to calculate the remainder with overflow")
            ELSE Value_Ok(IntegerV(Remainder(a.v, b.v)))
      [] Both(a, b, ValueType.Real, ValueType.Real) -> Value_Ok(RealNaN)
      [] OTHER -> Value_Err("TypeMismatch")

\* Runtime::negate
negate(a) ==
    CASE a.t = ValueType.Integer -> ok_or(checked_neg(a.v), "ArithmeticOverflow")
      [] a.t = ValueType.Real -> Value_Ok(RealNaN)
      [] OTHER -> Value_Err("TypeMismatch")

\* the arms `let b = pop()?; let a = pop()?; let result = self.f(a, b)?; push(result)?`
binary(m, f(_, _)) ==
    LET m1 == pop(m)
        m2 == pop(m1)
    IN IF ~Ok(m2) THEN m2
       ELSE LET r == f(peek(m1), peek(m))
            IN IF r.ok THEN push(m2, r.val) ELSE Err(m2, r.err)

\* the arms `let a = pop()?; let result = ...?; push(result)?`
unary(m, f(_)) ==
    LET m1 == pop(m)
    IN IF ~Ok(m1) THEN m1
       ELSE LET r == f(peek(m))
            IN IF r.ok THEN push(m1, r.val) ELSE Err(m1, r.err)

\* OpCode::Inc and OpCode::Dec: the match on the popped value
increment(a) ==
    CASE a.t = ValueType.Integer -> ok_or(checked_add(a.v, Wide(0, 1)), "ArithmeticOverflow")
      [] a.t = ValueType.Real -> Value_Ok(RealNaN)
      [] OTHER -> Value_Err("TypeMismatch")
decrement(a) ==
    CASE a.t = ValueType.Integer -> ok_or(checked_sub(a.v, Wide(0, 1)), "ArithmeticOverflow")
      [] a.t = ValueType.Real -> Value_Ok(RealNaN)
      [] OTHER -> Value_Err("TypeMismatch")

\* str::parse::<i64>, an Option: the strings converted are these decimals
\* and strings that are no number
Decimals == [n \in {"0", "1", "-1"} |-> CASE n = "0" -> 0 [] n = "1" -> 1 [] n = "-1" -> -1]
parse_i64(s) == IF s \in DOMAIN Decimals THEN <<Wide(0, Decimals[s])>> ELSE <<>>

\* Value::to_integer, an Option; a NaN cast `as i64` is 0
to_integer(value) ==
    CASE value.t = ValueType.Integer -> <<value.v>>
      [] value.t = ValueType.Real -> <<Wide(0, 0)>>
      [] value.t = ValueType.Boolean -> <<Wide(0, IF value.v THEN 1 ELSE 0)>>
      [] value.t = ValueType.String -> parse_i64(value.v)
      [] OTHER -> <<>>

\* OpCode::LoadAcc and OpCode::StoreAcc, on a machine that has the
\* accumulator of its Context
exec_LoadAcc(m) == push(m, IntegerV(m.accumulator))
exec_StoreAcc(m) ==
    LET m1 == pop(m)
        i == to_integer(peek(m))
    IN IF ~Ok(m1) THEN m1
       ELSE IF i # <<>> THEN [m1 EXCEPT !.accumulator = i[1]]
       ELSE Err(m1, "TypeMismatch")

\* OpCode::Add, Sub, Mul, Div, Mod, Neg, Inc, Dec
exec_Add(m) == binary(m, add)
exec_Sub(m) == binary(m, subtract)
exec_Mul(m) == binary(m, multiply)
exec_Div(m) == binary(m, divide)
exec_Mod(m) == binary(m, modulo)
exec_Neg(m) == unary(m, negate)
exec_Inc(m) == unary(m, increment)
exec_Dec(m) == unary(m, decrement)

-----------------------------------------------------------------------------
(* The source programs: statement trees over the literals 0..MaxLit.       *)

IntE(v) == [k |-> "Integer", v |-> v]
StrE(v) == [k |-> "String", v |-> v]
NullE == [k |-> "Null"]
Id(name) == [k |-> "Identifier", name |-> name]
CallE(name, args) == [k |-> "Call", name |-> name, args |-> args]

VarDecl(line, type, optional, name, init) ==
    [k |-> "VarDecl", line |-> line, type |-> type, optional |-> optional,
     name |-> name, init |-> init]
Assign(line, expr, name) == [k |-> "Assign", line |-> line, name |-> name, expr |-> expr]
SimpleAssign(line, name, expr) ==
    [k |-> "SimpleAssign", line |-> line, name |-> name, expr |-> expr]
Output(line, expr) == [k |-> "Output", line |-> line, expr |-> expr]
Throw(line, expr) == [k |-> "Throw", line |-> line, expr |-> expr]
Push(line, expr) == [k |-> "Push", line |-> line, expr |-> expr]
PopS(line) == [k |-> "Pop", line |-> line]
Return(line, value) == [k |-> "Return", line |-> line, value |-> value]
EndProgram(line) == [k |-> "EndProgram", line |-> line]
Loop(line, cond, body, end_line) ==
    [k |-> "Loop", line |-> line, cond |-> cond, body |-> body, end_line |-> end_line]
Break(line) == [k |-> "Break", line |-> line]
Continue(line) == [k |-> "Continue", line |-> line]
Function(line, name, params, body, end_line) ==
    [k |-> "Function", line |-> line, name |-> name, params |-> params, body |-> body,
     end_line |-> end_line]
TryCatch(line, body, var, catch_body, end_line) ==
    [k |-> "Try", line |-> line, body |-> body, catch |-> TRUE, var |-> var,
     catch_line |-> line, catch_body |-> catch_body, finally |-> FALSE,
     finally_line |-> line, finally_body |-> <<>>, end_line |-> end_line]
TryCatchFinally(line, body, var, catch_body, finally_body, end_line) ==
    [TryCatch(line, body, var, catch_body, end_line) EXCEPT
        !.finally = TRUE, !.finally_body = finally_body]
TryFinally(line, body, finally_body, end_line) ==
    [TryCatchFinally(line, body, <<>>, <<>>, finally_body, end_line) EXCEPT !.catch = FALSE]

\* a map declaration: pairs is the sequence of <<key, value>> expressions
MapDecl(line, name, pairs) ==
    [k |-> "MapDecl", line |-> line, name |-> name, pairs |-> pairs]

\* a match arm: pattern is <<>> for the wildcard
Arm(line, pattern, body) == [line |-> line, pattern |-> pattern, body |-> body]
Match(line, expr, arms, end_line) ==
    [k |-> "Match", line |-> line, expr |-> expr, arms |-> arms, end_line |-> end_line]

\* the literal the programs write where a second, different literal is wanted
Other(v) == MaxLit - v

IntParam(name) == <<name, ValueType.Integer>>

\* declaration forms: type x modifier x initializer, then one assignment
DeclTypes == <<ValueType.Integer, ValueType.String>>
DeclInits(v) == << <<>>, <<IntE(v)>>, <<StrE("s")>>, <<NullE>> >>
AssignedValues(v) == <<IntE(Other(v)), StrE("boom"), NullE>>
DeclAssign(type, optional, init, value) ==
    << VarDecl(1, type, optional, "x", init),
       SimpleAssign(2, "x", value),
       Output(3, Id("x")),
       EndProgram(4) >>
DeclAssignCount == Len(DeclTypes) * 2 * Len(DeclInits(0)) * Len(AssignedValues(0))
DeclAssignPrograms(v) ==
    [i \in 1..DeclAssignCount |->
        DeclAssign(DeclTypes[((i - 1) % 2) + 1],
                   ((i - 1) \div 2) % 2 = 1,
                   DeclInits(v)[(((i - 1) \div 4) % 4) + 1],
                   AssignedValues(v)[(((i - 1) \div 16) % 3) + 1])]

\* make(n) defines inner, which reads its captured n
Inner(body) == Function(2, "inner", <<>>, body, 3)
Make(inner_body, rest) ==
    Function(1, "make", <<IntParam("n")>>, <<Inner(inner_body)>> \o rest, 5)

\* x = v, print x
PrintProgram(v) ==
    << VarDecl(1, ValueType.Integer, FALSE, "x", <<IntE(v)>>), Output(2, Id("x")),
       EndProgram(3) >>

\* a try body that pops a value pushed before the try, then throws
ThrowBelowProgram(v) ==
    << Push(1, IntE(v)),
       TryCatch(2, <<PopS(2), Throw(2, StrE("boom"))>>, <<"e">>, <<Output(3, Id("e"))>>, 4),
       EndProgram(5) >>

\* a throw inside a function called from the try body, values pushed on the way
ThrowInCallProgram(v) ==
    << Function(1, "f", <<>>, <<Push(1, IntE(v)), Throw(1, StrE("boom"))>>, 1),
       TryCatch(2, <<Push(2, IntE(v)), Push(2, CallE("f", <<>>))>>, <<"e">>,
                <<Output(3, Id("e"))>>, 4),
       EndProgram(5) >>

\* a function that returns from inside its try body; the caller throws afterwards
ReturnInTryProgram(v) ==
    << Function(1, "f", <<>>, <<TryCatch(1, <<Return(1, <<IntE(v)>>)>>, <<>>, <<>>, 1)>>, 1),
       Push(2, CallE("f", <<>>)),
       Throw(3, StrE("boom")),
       EndProgram(4) >>

\* try / catch / finally whose body completes, and whose body throws
TryFinallyNormalProgram(v) ==
    << TryCatchFinally(1, <<Output(1, IntE(v))>>, <<"e">>, <<Output(2, StrE("catch"))>>,
                       <<Output(3, StrE("finally"))>>, 4),
       EndProgram(5) >>
TryFinallyThrowProgram(v) ==
    << TryCatchFinally(1, <<Throw(1, IntE(v))>>, <<"e">>, <<Output(2, Id("e"))>>,
                       <<Output(3, StrE("finally"))>>, 4),
       EndProgram(5) >>

\* try / finally without a catch, completing and throwing
TryOnlyFinallyProgram(v) ==
    << TryFinally(1, <<Output(1, IntE(v))>>, <<Output(3, StrE("finally"))>>, 4),
       EndProgram(5) >>
TryOnlyFinallyThrowProgram(v) ==
    << TryFinally(1, <<Throw(1, IntE(v))>>, <<Output(3, StrE("finally"))>>, 4),
       EndProgram(5) >>

\* g names x, which only its caller f declares: g reads it, g assigns it
CalleeReadsProgram(v) ==
    << Function(1, "g", <<>>, <<Return(1, <<Id("x")>>)>>, 1),
       Function(2, "f", <<>>,
                << VarDecl(2, ValueType.Integer, FALSE, "x", <<IntE(v)>>),
                   Return(2, <<CallE("g", <<>>)>>) >>, 2),
       Output(3, CallE("f", <<>>)),
       EndProgram(4) >>
CalleeWritesProgram(v) ==
    << Function(1, "g", <<>>, <<Assign(1, IntE(Other(v)), "x")>>, 1),
       Function(2, "f", <<>>,
                << VarDecl(2, ValueType.Integer, FALSE, "x", <<IntE(v)>>),
                   Push(2, CallE("g", <<>>)), PopS(2),
                   Return(2, <<Id("x")>>) >>, 2),
       Output(3, CallE("f", <<>>)),
       EndProgram(4) >>

\* inner assigns the n it captures while make, whose local n is, is still live
ClosureAssignProgram(v) ==
    << Make(<<Assign(2, IntE(Other(v)), "n"), Return(2, <<Id("n")>>)>>,
            << VarDecl(3, ValueType.Integer, FALSE, "f", <<Id("inner")>>),
               Output(4, CallE("f", <<>>)),
               Return(4, <<Id("n")>>) >>),
       Output(6, CallE("make", <<IntE(v)>>)),
       EndProgram(7) >>

\* make changes n after the closure over it was made
ClosureSnapshotProgram(v) ==
    << Make(<<Return(2, <<Id("n")>>)>>,
            << VarDecl(3, ValueType.Integer, FALSE, "f", <<Id("inner")>>),
               Assign(4, IntE(Other(v)), "n"),
               Return(4, <<CallE("f", <<>>)>>) >>),
       Output(6, CallE("make", <<IntE(v)>>)),
       EndProgram(7) >>

\* make returns the closure; it is called after make's frame is gone
ClosureEscapesProgram(v) ==
    << Make(<<Return(2, <<Id("n")>>)>>, <<Return(4, <<Id("inner")>>)>>),
       VarDecl(6, ValueType.Integer, FALSE, "f", <<CallE("make", <<IntE(v)>>)>>),
       Output(7, CallE("f", <<>>)),
       EndProgram(8) >>

\* make calls inner by its name
DirectCallProgram(v) ==
    << Make(<<Return(2, <<Id("n")>>)>>, <<Return(4, <<CallE("inner", <<>>)>>)>>),
       Output(6, CallE("make", <<IntE(v)>>)),
       EndProgram(7) >>

\* a function without captures used as a value
FunctionValueProgram(v) ==
    << Function(1, "h", <<>>, <<Return(1, <<IntE(v)>>)>>, 1),
       VarDecl(2, ValueType.Integer, FALSE, "f", <<Id("h")>>),
       Output(3, CallE("f", <<>>)),
       EndProgram(4) >>

\* the end-of-program mark inside a catch block, and no mark at all
EndInCatchProgram(v) ==
    << TryCatch(1, <<Output(1, IntE(v))>>, <<>>, <<EndProgram(2)>>, 3) >>
NoEndProgram(v) == << Output(1, IntE(v)) >>

\* break, continue and return where no loop and no function is open
BreakOutsideProgram(v) == << Output(1, IntE(v)), Break(2), EndProgram(3) >>
ContinueOutsideProgram(v) == << Output(1, IntE(v)), Continue(2), EndProgram(3) >>
ReturnOutsideProgram(v) == << Output(1, IntE(v)), Return(2, <<>>), EndProgram(3) >>

\* a break in a function body that no loop surrounds
BreakInFunctionProgram(v) ==
    << Function(1, "f", <<>>, <<Output(1, IntE(v)), Break(1)>>, 1),
       EndProgram(2) >>

\* a loop on the literal v left by break, and one that continues while v is not 0
LoopBreakProgram(v) ==
    << Loop(1, IntE(v), <<Output(1, IntE(v)), Break(1), Output(1, StrE("s"))>>, 1),
       Output(2, StrE("boom")),
       EndProgram(3) >>
LoopContinueProgram(v) ==
    << Loop(1, IntE(v), <<Continue(1), Output(1, StrE("s"))>>, 1),
       Output(2, StrE("boom")),
       EndProgram(3) >>

\* a return in a loop in a function, and a break in a try block in a loop
NestedExitsProgram(v) ==
    << Function(1, "f", <<>>, <<Loop(1, IntE(1), <<Return(1, <<IntE(v)>>)>>, 1)>>, 1),
       Loop(2, IntE(1), <<TryCatch(2, <<Break(2)>>, <<>>, <<>>, 2)>>, 2),
       Output(3, CallE("f", <<>>)),
       EndProgram(4) >>

\* two functions of one name: one after the other, and one inside the other
SequentialDuplicateProgram(v) ==
    << Function(1, "f", <<>>, <<Output(1, IntE(v))>>, 1),
       Function(2, "f", <<>>, <<Output(2, StrE("s"))>>, 2),
       EndProgram(3) >>
NestedDuplicateProgram(v) ==
    << Function(1, "f", <<>>,
                <<Function(1, "f", <<>>, <<Output(1, StrE("s"))>>, 1),
                  Output(1, IntE(v))>>, 1),
       Push(2, CallE("f", <<>>)),
       EndProgram(3) >>

\* a function and its call, and no end-of-program mark anywhere
NoEndAfterCallProgram(v) ==
    << Function(1, "f", <<>>, <<Output(1, IntE(v)), Return(1, <<>>)>>, 1),
       Push(2, CallE("f", <<>>)) >>

\* the end-of-program mark inside the body of a function the top level calls
EndInFunctionProgram(v) ==
    << Function(1, "f", <<>>, <<Output(1, IntE(v)), EndProgram(1)>>, 1),
       Push(2, CallE("f", <<>>)),
       EndProgram(3) >>

\* leave declares a parameter n, a local x and a catch binding e and returns;
\* the top level then names one of them
AfterReturnProgram(v, name) ==
    << Function(1, "leave", <<IntParam("n")>>,
                << VarDecl(1, ValueType.Integer, FALSE, "x", <<IntE(v)>>),
                   TryCatch(2, <<Throw(2, StrE("boom"))>>, <<"e">>, <<>>, 2),
                   Return(3, <<IntE(v)>>) >>, 3),
       Push(4, CallE("leave", <<IntE(v)>>)), PopS(4),
       Output(5, Id(name)),
       EndProgram(6) >>

\* a throw with no try around it, in a function the top level calls
ThrowUnhandledProgram(v) ==
    << Function(1, "f", <<>>, <<Output(1, IntE(v)), Throw(1, IntE(Other(v)))>>, 1),
       Push(2, CallE("f", <<>>)),
       Output(3, StrE("s")),
       EndProgram(4) >>

\* a try inside a try body: the inner body throws and the inner catch completes
NestedTryProgram(v) ==
    << TryCatch(1, << TryCatch(1, <<Throw(1, IntE(v))>>, <<"a">>, <<Output(2, Id("a"))>>, 3),
                      Output(3, StrE("s")) >>,
                <<"b">>, <<Output(4, StrE("outer")), Output(4, Id("b"))>>, 5),
       EndProgram(6) >>

\* a try inside a try body: the inner catch block throws a second value
ThrowInCatchProgram(v) ==
    << TryCatch(1, << TryCatch(1, <<Throw(1, IntE(v))>>, <<"a">>,
                               <<Output(2, Id("a")), Throw(2, IntE(Other(v)))>>, 3),
                      Output(3, StrE("s")) >>,
                <<"b">>, <<Output(4, StrE("outer")), Output(4, Id("b"))>>, 5),
       EndProgram(6) >>

\* pair prints its two parameters and returns the second
TwoArgCallProgram(v) ==
    << Function(1, "pair", <<IntParam("a"), IntParam("b")>>,
                <<Output(1, Id("a")), Output(1, Id("b")), Return(1, <<Id("b")>>)>>, 1),
       Output(2, CallE("pair", <<IntE(v), IntE(Other(v))>>)),
       EndProgram(3) >>

\* pair called through the variable f that holds it
IndirectCallProgram(v) ==
    << Function(1, "pair", <<IntParam("a"), IntParam("b")>>,
                <<Output(1, Id("a")), Output(1, Id("b")), Return(1, <<Id("b")>>)>>, 1),
       VarDecl(2, ValueType.Integer, FALSE, "f", <<Id("pair")>>),
       Output(3, CallE("f", <<IntE(v), IntE(Other(v))>>)),
       EndProgram(4) >>

\* make(n) defines inner(a, b), which captures n, and calls it through f
ClosureCallProgram(v) ==
    << Function(1, "make", <<IntParam("n")>>,
                << Function(2, "inner", <<IntParam("a"), IntParam("b")>>,
                            << Output(2, Id("a")), Output(2, Id("b")),
                               Return(2, <<Id("n")>>) >>, 3),
                   VarDecl(3, ValueType.Integer, FALSE, "f", <<Id("inner")>>),
                   Return(4, <<CallE("f", <<StrE("s"), IntE(Other(v))>>)>>) >>, 5),
       Output(6, CallE("make", <<IntE(v)>>)),
       EndProgram(7) >>

\* a call through a variable that holds an integer
NotCallableProgram(v) ==
    << VarDecl(1, ValueType.Integer, FALSE, "f", <<IntE(v)>>),
       Output(2, CallE("f", <<IntE(Other(v))>>)),
       EndProgram(3) >>

\* the patterns of an arm: the scrutinee's literal, another literal, a string,
\* the wildcard
ArmPatterns(v) == << <<IntE(v)>>, <<IntE(Other(v))>>, <<StrE("s")>>, <<>> >>
ArmMarks == <<"first", "second", "third">>
MatchArms == Len(ArmMarks)

RECURSIVE Power(_, _)
Power(b, e) == IF e = 0 THEN 1 ELSE b * Power(b, e - 1)

\* match on the literal v with three arms, each printing its mark; the i-th
\* choice of their patterns
MatchProgram(v, i) ==
    << Match(1, IntE(v),
             [k \in 1..MatchArms |->
                 Arm(k, ArmPatterns(v)[(((i - 1) \div Power(Len(ArmPatterns(v)), k - 1))
                                         % Len(ArmPatterns(v))) + 1],
                     <<Output(k, StrE(ArmMarks[k]))>>)],
             4),
       Output(5, StrE("end")),
       EndProgram(6) >>
MatchProgramCount == Power(Len(ArmPatterns(0)), MatchArms)
MatchPrograms(v) == [i \in 1..MatchProgramCount |-> MatchProgram(v, i)]

ProgramsOf(v) ==
    << PrintProgram(v), ThrowBelowProgram(v), ThrowInCallProgram(v), ReturnInTryProgram(v),
       TryFinallyNormalProgram(v), TryFinallyThrowProgram(v), TryOnlyFinallyProgram(v),
       TryOnlyFinallyThrowProgram(v), CalleeReadsProgram(v), CalleeWritesProgram(v),
       ClosureAssignProgram(v), ClosureSnapshotProgram(v), ClosureEscapesProgram(v),
       DirectCallProgram(v), FunctionValueProgram(v), EndInCatchProgram(v),
       NoEndProgram(v), NoEndAfterCallProgram(v), EndInFunctionProgram(v),
       BreakOutsideProgram(v), ContinueOutsideProgram(v), ReturnOutsideProgram(v),
       BreakInFunctionProgram(v), LoopBreakProgram(v), LoopContinueProgram(v),
       NestedExitsProgram(v), SequentialDuplicateProgram(v), NestedDuplicateProgram(v),
       AfterReturnProgram(v, "n"), AfterReturnProgram(v, "x"), AfterReturnProgram(v, "e"),
       ThrowUnhandledProgram(v) >>
    \o DeclAssignPrograms(v)

RECURSIVE ProgramsUpTo(_)
ProgramsUpTo(v) == IF v < 0 THEN <<>> ELSE ProgramsUpTo(v - 1) \o ProgramsOf(v)

Programs == ProgramsUpTo(MaxLit)

-----------------------------------------------------------------------------
(* The .obc files load_file is given besides those compile_file wrote.     *)

\* the bytes a header is made of: below, at and above the runtime's major version
HeaderBytes == {0, VERSION_MAJOR, VERSION_MAJOR + 1}

\* a chunk no source program compiles to: inner stores to its capture slot.
\*    n = v; f = closure(inner, [n]); print f(); print n; halt
\*    inner: capture[0] = Other(v); return capture[0]
StoreCaptureCode ==
    << OpCode.Const, 0, 0, OpCode.DeclareVar, 0, 0, ValueType.Integer,
       OpCode.LoadVar, 0, 0, OpCode.MakeClosure, 0, 0, 1,
       OpCode.DeclareVar, 1, 0, ValueType.Closure,
       OpCode.LoadVar, 1, 0, OpCode.CallClosure, 0, OpCode["Print"],
       OpCode.LoadVar, 0, 0, OpCode["Print"], OpCode.Halt,
       OpCode.Const, 1, 0, OpCode.StoreCapture, 0, 0, OpCode.LoadCapture, 0, 0,
       OpCode.Return >>
StoreCaptureStart == Len(StoreCaptureCode) - 10
StoreCaptureChunk(v) ==
    [Chunk_new("main") EXCEPT
        !.code = StoreCaptureCode,
        !.lines = [i \in 1..Len(StoreCaptureCode) |-> 1],
        !.constants = <<IntegerV(v), IntegerV(Other(v))>>,
        !.strings = <<"n", "f">>,
        !.functions = <<FunctionInfo_new("inner", 0, <<>>, StoreCaptureStart, 10)>>]

HeaderLen == Len(MAGIC) + 4

\* a header: the magic with one byte replaced or not, and any four bytes after it
Headers ==
    { [MAGIC EXCEPT ![i] = b] \o ver :
        i \in {1, Len(MAGIC)}, b \in HeaderBytes \cup {MAGIC[1]},
        ver \in [1..4 -> HeaderBytes] }

\* the length of a serialized StoreCaptureChunk (integers take eight bytes each)
StoreCaptureLen == Len(serialize(StoreCaptureChunk(0)))

\* the header, then what the serializer writes after its own header, cut to a length
ObcInputs ==
    { SubSeq(h \o SubSeq(serialize(StoreCaptureChunk(v)), HeaderLen + 1, StoreCaptureLen),
             1, len) :
        h \in Headers, v \in 0..MaxLit,
        len \in {Len(MAGIC) - 1, HeaderLen - 1, HeaderLen, StoreCaptureLen} }

\* a chunk with bytes that are no variant's: the type byte of the DeclareVar,
\* the type of f's parameter, and the opcode before the Halt.
\*    n = 0; print f(n); <0x00>; halt          f(x): return x
UndefinedTag == ValueType.Module + 1
UndefinedBytesCode ==
    << OpCode.Const, 0, 0, OpCode.DeclareVar, 0, 0, UndefinedTag,
       OpCode.LoadVar, 0, 0, OpCode.Call, 0, 0, 1, OpCode["Print"],
       0, OpCode.Halt,
       OpCode.LoadVar, 1, 0, OpCode.Return >>
UndefinedBytesChunk ==
    [Chunk_new("main") EXCEPT
        !.code = UndefinedBytesCode,
        !.lines = [i \in 1..Len(UndefinedBytesCode) |-> 1],
        !.constants = <<IntegerV(0)>>,
        !.strings = <<"n", "x">>,
        !.functions = <<FunctionInfo_new("f", 1, <<<<"x", UndefinedTag>>>>,
                                         Len(UndefinedBytesCode) - 4, 4)>>]
UndefinedInputs == {serialize(UndefinedBytesChunk)}

-----------------------------------------------------------------------------
(* main.rs: the driver, and Runtime::execute / Runtime::run                *)

\* Context::new: the accumulator is 0 and nothing is saved
AccumulatorNew == accumulator = Wide(0, 0) /\ accumulator_stack = <<>>

\* ModuleLoader::new
LoaderNew == loading_stack = <<>> /\ modules = <<>> /\ loaded = <<>>

\* no lexer is at work: the table before any glyph is registered, no input
LexerNew ==
    /\ symbol_table = [symbols |-> {}, max_glyph_len |-> 1]
    /\ chars = <<>>
    /\ tokens = <<>>

\* Compiler::new: current is 0; no call is in progress
ParserNew == current = 0 /\ counted = 0 /\ position = <<>>

AsideInit == literals = 0 /\ AccumulatorNew /\ LoaderNew /\ LexerNew /\ ParserNew

Init ==
    /\ source = <<>>
    /\ file = <<>>
    /\ chunks = <<>>
    /\ frames = <<>>
    /\ globals = Scope_new
    /\ stack = <<>>
    /\ exception_handlers = <<>>
    /\ current_exception = <<>>
    /\ halted = FALSE
    /\ output = <<>>
    /\ command = "none"
    /\ result = "idle"
    /\ AsideInit

\* Runtime::execute up to the call of run: add_chunk, push the "main" frame
execute(ch) ==
    /\ chunks' = Append(chunks, ch)
    /\ frames' = Append(frames, CallFrame_new(Len(chunks), Len(stack), "main"))
    /\ result' = "running"
    /\ UNCHANGED <<globals, stack, exception_handlers, current_exception, halted, output,
                   aside>>

\* the driver stops with the error e
fail(e) ==
    /\ result' = e
    /\ UNCHANGED <<chunks, frames, globals, stack, exception_handlers, current_exception,
                   halted, output, aside>>

\* run_file
RunFile(src) ==
    /\ command = "none"
    /\ command' = "run"
    /\ source' = src
    /\ UNCHANGED file
    /\ \E c \in {compile(src)} : IF c.ok THEN execute(c.chunk) ELSE fail(c.err)

\* compile_file with an output path: save_to_file writes serialize(chunk)
CompileFile(src) ==
    /\ command = "none"
    /\ command' = "compile"
    /\ source' = src
    /\ \E c \in {compile(src)} :
          /\ file' = IF c.ok THEN serialize(c.chunk) ELSE file
          /\ fail(IF c.ok THEN "compiled" ELSE c.err)

\* load_file, of the file compile_file wrote or of a file from elsewhere
LoadFile(bytes) ==
    /\ \/ command = "none" /\ bytes \in ObcInputs \cup UndefinedInputs
       \/ command = "compile" /\ result = "compiled" /\ bytes = file
    /\ command' = "load"
    /\ file' = bytes
    /\ UNCHANGED source
    /\ \E d \in {deserialize(bytes)} :
          IF d.ok THEN \E ch \in transmuted(d.chunk) : execute(ch) ELSE fail(d.err)

\* Runtime::run: the loop is running and has not returned
Running == result = "running"

\* the loop's next iteration finds the halt flag set and returns Ok
Finish ==
    /\ Running
    /\ halted
    /\ result' = "ok"
    /\ UNCHANGED <<source, file, chunks, frames, globals, stack, exception_handlers,
                   current_exception, halted, output, command, aside>>

\* the loop's next iteration finds no current frame
NoFrame ==
    /\ Running
    /\ ~halted
    /\ frames = <<>>
    /\ result' = "UniverseCorruption"
    /\ UNCHANGED <<source, file, chunks, frames, globals, stack, exception_handlers,
                   current_exception, halted, output, command, aside>>

\* the current frame's ip and the opcode byte under it
Ip == frames[Len(frames)].ip
AtEnd == Ip >= Len(chunk.code)
CurrentOp == chunk.code[Ip + 1]

\* ip ran off the end of the code: pop the frame, and fail when it was the last
EndOfCode ==
    /\ Running
    /\ ~halted
    /\ frames # <<>>
    /\ AtEnd
    /\ frames' = SubSeq(frames, 1, Len(frames) - 1)
    /\ result' = IF Len(frames) = 1 THEN "UniverseCorruption" ELSE "running"
    /\ UNCHANGED <<source, file, chunks, globals, stack, exception_handlers,
                   current_exception, halted, output, command, aside>>

\* the loop fetches opcode op
Fetch(op) ==
    /\ Running
    /\ ~halted
    /\ frames # <<>>
    /\ ~AtEnd
    /\ CurrentOp = op

\* execute_instruction matches on the transmuted opcode byte: the arm of op runs
Dispatch(op) ==
    /\ Running
    /\ ~halted
    /\ frames # <<>>
    /\ ~AtEnd
    /\ op \in transmute_OpCode(CurrentOp)

\* what the transmute of DeclareVar's type byte can give (the byte is the third
\* operand byte; without it read_byte fails before the type is used)
DeclareVarTypes ==
    IF Ip + 4 <= Len(chunk.code) THEN transmute_ValueType(chunk.code[Ip + 4])
    ELSE {ValueType.Integer}

\* the machine when execute_instruction is entered: ip is past the opcode
Machine ==
    [frames |-> [frames EXCEPT ![Len(frames)].ip = @ + 1], globals |-> globals,
     stack |-> stack, exception_handlers |-> exception_handlers,
     current_exception |-> current_exception, halted |-> halted, output |-> output,
     err |-> NoError]

\* the machine execute_instruction leaves; its error ends the run
Commit(m) ==
    /\ frames' = m.frames
    /\ globals' = m.globals
    /\ stack' = m.stack
    /\ exception_handlers' = m.exception_handlers
    /\ current_exception' = m.current_exception
    /\ halted' = m.halted
    /\ output' = m.output
    /\ result' = IF Ok(m) THEN "running" ELSE m.err
    /\ UNCHANGED <<source, file, chunks, command, aside>>

StepConst == Dispatch(OpCode.Const) /\ Commit(exec_Const(Machine))
StepNull == Dispatch(OpCode.Null) /\ Commit(exec_Null(Machine))
StepPop == Dispatch(OpCode.Pop) /\ Commit(exec_Pop(Machine))
StepDeclareVar ==
    /\ Dispatch(OpCode.DeclareVar)
    /\ \E var_type \in DeclareVarTypes : Commit(exec_DeclareVar(Machine, var_type))
StepMakeMap == Dispatch(OpCode.MakeMap) /\ Commit(exec_MakeMap(Machine))
StepLoadVar == Dispatch(OpCode.LoadVar) /\ Commit(exec_LoadVar(Machine))
StepStoreVar == Dispatch(OpCode.StoreVar) /\ Commit(exec_StoreVar(Machine))
StepJump == Dispatch(OpCode.Jump) /\ Commit(exec_Jump(Machine))
StepJumpIfFalse == Dispatch(OpCode.JumpIfFalse) /\ Commit(exec_JumpIfFalse(Machine))
StepLoop == Dispatch(OpCode.Loop) /\ Commit(exec_Loop(Machine))
StepCall == Dispatch(OpCode.Call) /\ Commit(exec_Call(Machine))
StepReturn == Dispatch(OpCode.Return) /\ Commit(exec_Return(Machine))
StepLoadFunc == Dispatch(OpCode.LoadFunc) /\ Commit(exec_LoadFunc(Machine))
StepCallClosure == Dispatch(OpCode.CallClosure) /\ Commit(exec_CallClosure(Machine))
StepMakeClosure == Dispatch(OpCode.MakeClosure) /\ Commit(exec_MakeClosure(Machine))
StepLoadCapture == Dispatch(OpCode.LoadCapture) /\ Commit(exec_LoadCapture(Machine))
StepStoreCapture == Dispatch(OpCode.StoreCapture) /\ Commit(exec_StoreCapture(Machine))
StepTryBegin == Dispatch(OpCode.TryBegin) /\ Commit(exec_TryBegin(Machine))
StepTryEnd == Dispatch(OpCode.TryEnd) /\ Commit(exec_TryEnd(Machine))
StepThrow == Dispatch(OpCode.Throw) /\ Commit(exec_Throw(Machine))
StepCatch == Dispatch(OpCode.Catch) /\ Commit(exec_Catch(Machine))
StepFinally == Dispatch(OpCode.Finally) /\ Commit(exec_Finally(Machine))
StepPrint == Dispatch(OpCode["Print"]) /\ Commit(exec_Print(Machine))
StepHalt == Dispatch(OpCode.Halt) /\ Commit(exec_Halt(Machine))

StepAdd == Dispatch(OpCode.Add) /\ Commit(exec_Add(Machine))
StepSub == Dispatch(OpCode.Sub) /\ Commit(exec_Sub(Machine))
StepMul == Dispatch(OpCode.Mul) /\ Commit(exec_Mul(Machine))
StepDiv == Dispatch(OpCode.Div) /\ Commit(exec_Div(Machine))
StepMod == Dispatch(OpCode.Mod) /\ Commit(exec_Mod(Machine))
StepNeg == Dispatch(OpCode.Neg) /\ Commit(exec_Neg(Machine))
StepInc == Dispatch(OpCode.Inc) /\ Commit(exec_Inc(Machine))
StepDec == Dispatch(OpCode.Dec) /\ Commit(exec_Dec(Machine))

\* the machine with the accumulator of its Context, and what it leaves
AccMachine ==
    [frames |-> [frames EXCEPT ![Len(frames)].ip = @ + 1], globals |-> globals,
     stack |-> stack, exception_handlers |-> exception_handlers,
     current_exception |-> current_exception, halted |-> halted, output |-> output,
     accumulator |-> accumulator, accumulator_stack |-> accumulator_stack,
     err |-> NoError]
AccCommit(m) ==
    /\ frames' = m.frames
    /\ globals' = m.globals
    /\ stack' = m.stack
    /\ exception_handlers' = m.exception_handlers
    /\ current_exception' = m.current_exception
    /\ halted' = m.halted
    /\ output' = m.output
    /\ accumulator' = m.accumulator
    /\ accumulator_stack' = m.accumulator_stack
    /\ result' = IF Ok(m) THEN "running" ELSE m.err
    /\ UNCHANGED <<source, file, chunks, command, literals, loader_vars, lexer_vars,
                   parser_vars>>

StepLoadAcc == Dispatch(OpCode.LoadAcc) /\ AccCommit(exec_LoadAcc(AccMachine))
StepStoreAcc == Dispatch(OpCode.StoreAcc) /\ AccCommit(exec_StoreAcc(AccMachine))

StepDup == Dispatch(OpCode.Dup) /\ Commit(exec_Dup(Machine))
StepEq == Dispatch(OpCode.Eq) /\ Commit(exec_Eq(Machine))

\* the `_` arm of the match: the byte is no variant's
StepUnknownOpcode ==
    \E byte \in (0..255) \ DefinedOpcodes :
        Dispatch(byte) /\ Commit(Err(Machine, "UnknownOpcode"))

Next ==
    \/ \E i \in 1..Len(Programs) : RunFile(Programs[i])
    \/ \E i \in 1..Len(Programs) : CompileFile(Programs[i])
    \/ \E bytes \in ObcInputs \cup UndefinedInputs \cup {file} : LoadFile(bytes)
    \/ Finish
    \/ NoFrame
    \/ EndOfCode
    \/ StepConst
    \/ StepNull
    \/ StepPop
    \/ StepDeclareVar
    \/ StepLoadVar
    \/ StepStoreVar
    \/ StepJump
    \/ StepJumpIfFalse
    \/ StepLoop
    \/ StepCall
    \/ StepReturn
    \/ StepLoadFunc
    \/ StepCallClosure
    \/ StepMakeClosure
    \/ StepLoadCapture
    \/ StepStoreCapture
    \/ StepTryBegin
    \/ StepTryEnd
    \/ StepThrow
    \/ StepCatch
    \/ StepFinally
    \/ StepPrint
    \/ StepHalt
    \/ StepUnknownOpcode

Spec == Init /\ [][Next]_vars

-----------------------------------------------------------------------------
(* The compiler at the end of its 16-bit constant pool.  Its input is the   *)
(* number of constants the literals compiled so far have added (add_constant *)
(* interns nothing: every literal takes an entry) and the next statement,   *)
(* which pushes a literal.  source is that statement, file the code the     *)
(* compiler wrote for it, and stack what the Const it wrote pushes when it  *)
(* runs on the pool the compiler built.                                     *)

\* how far below index 65535 the pool starts, and how far past it the pool is taken
MaxUnder == 60
MaxOver == 3

\* the literals of the statement
PoolLiterals == {IntE(0), IntE(MaxLit), StrE("s")}

\* the chunk after n literals 0 were compiled, their code left out
PoolChunk(n) == [Chunk_new("main") EXCEPT !.constants = [i \in 1..n |-> IntegerV(0)]]

PoolInit ==
    /\ source = <<>>
    /\ file = <<>>
    /\ chunks = <<>>
    /\ frames = <<>>
    /\ globals = Scope_new
    /\ stack = <<>>
    /\ exception_handlers = <<>>
    /\ current_exception = <<>>
    /\ halted = FALSE
    /\ output = <<>>
    /\ command = "compile"
    /\ result = "compiling"
    /\ literals \in (U16Max + 1 - MaxUnder)..(U16Max + 1)
    /\ AccumulatorNew /\ LoaderNew /\ LexerNew /\ ParserNew

\* the compiler, its pool holding `literals` constants, compiles `push e`
CompileLiteral(e) ==
    /\ result = "compiling"
    /\ literals < U16Max + 1 + MaxOver
    /\ source' = <<Push(1, e)>>
    /\ literals' = literals + 1
    /\ \E c \in {statement([Compiler_new EXCEPT !.chunk = PoolChunk(literals)], Push(1, e))} :
          /\ file' = c.chunk.code
          /\ stack' = IF c.err = NoError
                      THEN <<c.chunk.constants[read_u16_at(c.chunk.code, 1) + 1]>>
                      ELSE <<>>
          /\ result' = IF c.err = NoError THEN "compiling" ELSE c.err
    /\ UNCHANGED <<chunks, frames, globals, exception_handlers, current_exception,
                   halted, output, command, acc_vars, loader_vars, lexer_vars,
                   parser_vars>>

PoolNext == \E e \in PoolLiterals : CompileLiteral(e)

PoolSpec == PoolInit /\ [][PoolNext]_vars

-----------------------------------------------------------------------------
(* The map instructions, applied one after the other to the map MakeMap 0  *)
(* left on the stack.  source is the sequence of MapSet and MapRemove      *)
(* instructions applied so far, with the key and value each found on the   *)
(* stack; command is the instruction applied last.                         *)

\* how many MapSet and MapRemove instructions are applied
MaxOps == 4

MapKeySet == {IntegerV(0), IntegerV(1), RealNaN}
MapValueSet == {IntegerV(0), IntegerV(1)}

MapInit ==
    /\ source = <<>>
    /\ file = <<>>
    /\ chunks = <<>>
    /\ frames = <<CallFrame_new(0, 0, "main")>>
    /\ globals = Scope_new
    /\ stack = <<MapV(<<>>)>>
    /\ exception_handlers = <<>>
    /\ current_exception = <<>>
    /\ halted = FALSE
    /\ output = <<>>
    /\ command = "MakeMap"
    /\ result = "running"
    /\ AsideInit

\* the machine when the instruction runs, its operands pushed above the stack
MapMachine(operands) ==
    [frames |-> frames, globals |-> globals, stack |-> stack \o operands,
     exception_handlers |-> exception_handlers, current_exception |-> current_exception,
     halted |-> halted, output |-> output, err |-> NoError]

\* the instruction op left the machine m
MapCommit(op, m) ==
    /\ command' = op
    /\ stack' = m.stack
    /\ result' = IF Ok(m) THEN "running" ELSE m.err
    /\ UNCHANGED <<file, chunks, frames, globals, exception_handlers, current_exception,
                   halted, output, aside>>

\* only the map is on the stack, and the run goes on
MapOnStack == result = "running" /\ Len(stack) = 1

MapSetStep(key, value) ==
    /\ MapOnStack
    /\ Len(source) < MaxOps
    /\ source' = Append(source, [k |-> "MapSet", key |-> key, value |-> value])
    /\ MapCommit("MapSet", exec_MapSet(MapMachine(<<key, value>>)))

MapRemoveStep(key) ==
    /\ MapOnStack
    /\ Len(source) < MaxOps
    /\ source' = Append(source, [k |-> "MapRemove", key |-> key])
    /\ MapCommit("MapRemove", exec_MapRemove(MapMachine(<<key>>)))

\* Dup, then the listing of the copy
MapKeysStep ==
    /\ MapOnStack
    /\ command \in {"MapSet", "MapRemove"}
    /\ MapCommit("MapKeys", exec_MapKeys(exec_Dup(MapMachine(<<>>))))
    /\ UNCHANGED source

MapValuesStep ==
    /\ MapOnStack
    /\ command \in {"MapSet", "MapRemove"}
    /\ MapCommit("MapValues", exec_MapValues(exec_Dup(MapMachine(<<>>))))
    /\ UNCHANGED source

\* Pop of the listing
MapPopStep ==
    /\ result = "running"
    /\ Len(stack) = 2
    /\ MapCommit("Pop", exec_Pop(MapMachine(<<>>)))
    /\ UNCHANGED source

MapNext ==
    \/ \E key \in MapKeySet, value \in MapValueSet : MapSetStep(key, value)
    \/ \E key \in MapKeySet : MapRemoveStep(key)
    \/ MapKeysStep
    \/ MapValuesStep
    \/ MapPopStep

MapSpec == MapInit /\ [][MapNext]_vars

-----------------------------------------------------------------------------
(* The machine at its depth limits: Runtime::execute of a chunk that       *)
(* pushes for ever, of one that pops for ever and of one whose function    *)
(* calls itself for ever.  The pushing loop is taken up where the stack is *)
(* already near MAX_STACK_DEPTH and the recursion where the frames are     *)
(* near MAX_CALL_DEPTH; the popping chunk is given to a runtime whose      *)
(* stack holds a few values.                                               *)

\* how many values or frames below a limit a run is taken up
MaxNear == 30

\*    0: Null; 1: Loop 4 (back to 0)
PushCode == << OpCode.Null, OpCode.Loop, 4, 0 >>
\*    0: Pop; 1: Loop 4 (back to 0)
PopCode == << OpCode.Pop, OpCode.Loop, 4, 0 >>
\*    f, at 0: Call f
CallCode == << OpCode.Call, 0, 0, 0 >>

DepthChunk(code) ==
    [Chunk_new("main") EXCEPT
        !.code = code,
        !.lines = [i \in 1..Len(code) |-> 1],
        !.functions = <<FunctionInfo_new("f", 0, <<>>, 0, Len(code))>>]

\* the frames after the function entered itself k - 1 times: each caller
\* stands after its Call
Recursion(k) ==
    [i \in 1..k |->
        [CallFrame_new(0, 0, IF i = 1 THEN "main" ELSE "f") EXCEPT
            !.ip = IF i = k THEN 0 ELSE Len(CallCode)]]

DepthInit ==
    /\ source = <<>>
    /\ file = <<>>
    /\ \/ /\ chunks = <<DepthChunk(PushCode)>>
          /\ \E n \in (MAX_STACK_DEPTH - MaxNear)..MAX_STACK_DEPTH :
                stack = [i \in 1..n |-> NullV]
          /\ frames = <<CallFrame_new(0, 0, "main")>>
       \/ /\ chunks = <<DepthChunk(PopCode)>>
          /\ \E n \in 0..MaxNear :
                /\ stack = [i \in 1..n |-> NullV]
                /\ frames = <<CallFrame_new(0, n, "main")>>
       \/ /\ chunks = <<DepthChunk(CallCode)>>
          /\ stack = <<>>
          /\ \E k \in (MAX_CALL_DEPTH - MaxNear)..MAX_CALL_DEPTH : frames = Recursion(k)
    /\ globals = Scope_new
    /\ exception_handlers = <<>>
    /\ current_exception = <<>>
    /\ halted = FALSE
    /\ output = <<>>
    /\ command = "load"
    /\ result = "running"
    /\ AsideInit

DepthNext ==
    \/ StepNull
    \/ StepPop
    \/ StepLoop
    \/ StepCall

DepthSpec == DepthInit /\ [][DepthNext]_vars

-----------------------------------------------------------------------------
(* The arithmetic instructions on Integer operands at the ends of the i64  *)
(* range and about zero: Runtime::execute of a chunk holding one           *)
(* instruction and Halt, the operands being on the stack.                  *)

\* how far from the least and the greatest i64 the operands go, and from 1, -1
MaxEdge == 1

ArithInts ==
    {Wide(-1, d) : d \in 0..MaxEdge} \cup {Wide(1, -1 - d) : d \in 0..MaxEdge}
    \cup {Wide(0, n) : n \in -(MaxEdge + 1)..(MaxEdge + 1)}

BinaryOps == {OpCode.Add, OpCode.Sub, OpCode.Mul, OpCode.Div, OpCode.Mod}
UnaryOps == {OpCode.Neg, OpCode.Inc, OpCode.Dec}

ArithChunk(op) ==
    [Chunk_new("main") EXCEPT !.code = <<op, OpCode.Halt>>, !.lines = <<1, 1>>]

ArithInit ==
    /\ source = <<>>
    /\ file = <<>>
    /\ \/ \E op \in BinaryOps, x \in ArithInts, y \in ArithInts :
            /\ op \in {OpCode.Div, OpCode.Mod} => Divides(x, y)
            /\ chunks = <<ArithChunk(op)>>
            /\ stack = <<IntegerV(x), IntegerV(y)>>
       \/ \E op \in UnaryOps, x \in ArithInts :
            /\ chunks = <<ArithChunk(op)>>
            /\ stack = <<IntegerV(x)>>
    /\ frames = <<CallFrame_new(0, 0, "main")>>
    /\ globals = Scope_new
    /\ exception_handlers = <<>>
    /\ current_exception = <<>>
    /\ halted = FALSE
    /\ output = <<>>
    /\ command = "load"
    /\ result = "running"
    /\ AsideInit

ArithNext ==
    \/ StepAdd
    \/ StepSub
    \/ StepMul
    \/ StepDiv
    \/ StepMod
    \/ StepNeg
    \/ StepInc
    \/ StepDec
    \/ StepHalt
    \/ Finish

ArithSpec == ArithInit /\ [][ArithNext]_vars

-----------------------------------------------------------------------------
(* LoadAcc and StoreAcc: Runtime::execute of a chunk holding one of them   *)
(* and Halt, the accumulator holding an i64 and a value being on the stack.*)

AccValues ==
    {IntegerV(x) : x \in ArithInts}
    \cup {RealNaN, BooleanV(TRUE), BooleanV(FALSE), StringV("1"), StringV("s"), NullV}

AccInit ==
    /\ source = <<>>
    /\ file = <<>>
    /\ \E op \in {OpCode.LoadAcc, OpCode.StoreAcc} : chunks = <<ArithChunk(op)>>
    /\ \E value \in AccValues : stack = <<value>>
    /\ accumulator \in ArithInts
    /\ accumulator_stack = <<>>
    /\ frames = <<CallFrame_new(0, 0, "main")>>
    /\ globals = Scope_new
    /\ exception_handlers = <<>>
    /\ current_exception = <<>>
    /\ halted = FALSE
    /\ output = <<>>
    /\ command = "load"
    /\ result = "running"
    /\ literals = 0
    /\ LoaderNew
    /\ LexerNew /\ ParserNew

AccNext ==
    \/ StepLoadAcc
    \/ StepStoreAcc
    \/ StepHalt
    \/ Finish

AccSpec == AccInit /\ [][AccNext]_vars

-----------------------------------------------------------------------------
(* modules.rs: the ModuleLoader's loading stack.  The loader is the record *)
(* of loading_stack, modules and loaded; its methods are called in any     *)
(* order.  command is the method called last, source its argument and      *)
(* result what it returned.                                                *)

\* how many modules are loaded
MaxModules == 3

ModuleNames == {"a", "b", "c"}

Loader == [loading_stack |-> loading_stack, modules |-> modules, loaded |-> loaded]

\* `self.loading_stack.join(" U+2192 ")`, the arrow written by its code point
RECURSIVE join(_)
join(names) ==
    IF names = <<>> THEN ""
    ELSE IF Len(names) = 1 THEN names[1]
    ELSE names[1] \o " U+2192 " \o join(Tail(names))

\* `self.loading_stack.retain(|n| n != name)`
RECURSIVE retain(_, _)
retain(names, name) ==
    IF names = <<>> THEN <<>>
    ELSE IF names[1] # name THEN <<names[1]>> \o retain(Tail(names), name)
    ELSE retain(Tail(names), name)

\* (were the name pushed without the look at the stack)
begin_load_Unchecked(l, name) ==
    [loader |-> [l EXCEPT !.loading_stack = Append(@, name)], ret |-> "ok"]

\* ModuleLoader::begin_load: the loader it leaves and what it returns
begin_load(l, name) ==
    IF \E i \in 1..Len(l.loading_stack) : l.loading_stack[i] = name
    THEN [loader |-> l,
          ret |-> "CircularDependency: " \o join(l.loading_stack) \o " U+2192 " \o name]
    ELSE [loader |-> [l EXCEPT !.loading_stack = Append(@, name)], ret |-> "ok"]

\* ModuleLoader::complete_load: the index it returns is that of the module
complete_load(l, name) ==
    [loader |-> [l EXCEPT !.modules = Append(@, name),
                          !.loaded = (name :> Len(l.modules)) @@ @,
                          !.loading_stack = retain(@, name)],
     ret |-> ToString(Len(l.modules))]

\* ModuleLoader::cancel_load
cancel_load(l, name) ==
    [loader |-> [l EXCEPT !.loading_stack = retain(@, name)], ret |-> "()"]

LoaderInit ==
    /\ source = <<>>
    /\ file = <<>>
    /\ chunks = <<>>
    /\ frames = <<>>
    /\ globals = Scope_new
    /\ stack = <<>>
    /\ exception_handlers = <<>>
    /\ current_exception = <<>>
    /\ halted = FALSE
    /\ output = <<>>
    /\ command = "new"
    /\ result = "idle"
    /\ literals = 0
    /\ AccumulatorNew
    /\ LoaderNew
    /\ LexerNew /\ ParserNew

\* the loader after the call, and what the call returned
Called(method, name, r) ==
    /\ command' = method
    /\ source' = <<name>>
    /\ result' = r.ret
    /\ loading_stack' = r.loader.loading_stack
    /\ modules' = r.loader.modules
    /\ loaded' = r.loader.loaded
    /\ UNCHANGED <<file, chunks, frames, globals, stack, exception_handlers,
                   current_exception, halted, output, literals, acc_vars, lexer_vars,
                   parser_vars>>

BeginLoad(name) ==
    /\ name \in ModuleNames
    /\ Called("begin_load", name, begin_load(Loader, name))

CompleteLoad(name) ==
    /\ Len(modules) < MaxModules
    /\ Called("complete_load", name, complete_load(Loader, name))

CancelLoad(name) ==
    /\ name \in ModuleNames
    /\ Called("cancel_load", name, cancel_load(Loader, name))

LoaderNext ==
    \/ \E name \in ModuleNames : BeginLoad(name)
    \/ \E name \in ModuleNames : CompleteLoad(name)
    \/ \E name \in ModuleNames : CancelLoad(name)

LoaderSpec == LoaderInit /\ [][LoaderNext]_vars

-----------------------------------------------------------------------------
(* symbols/meaning.rs and lexer/symbols.rs: the lexer over a symbol table. *)
(* A code point is written by its name ("U+2620" the skull, "U+2699" the   *)
(* gear, "U+FE0E" the text variation selector that ends the two-code-point *)
(* glyphs of the standard table); a glyph, a lexeme and the input are      *)
(* sequences of code points.  A table is what register built from some     *)
(* glyphs; source is the input the lexer was made for, chars what is left  *)
(* of it.  The inputs hold no quote, digit, letter or comment opener.      *)

\* how many code points the input has
MaxInput == 3

CodePoints == {"U+2620", "U+FE0E", "U+2699", " ", "="}

\* the glyphs a table is built from: the two of the standard table that
\* these code points spell, a glyph that is the beginning of one of them
\* and a glyph that goes on after it
Glyphs ==
    {<<"U+2620", "U+FE0E">>, <<"U+2699", "U+FE0E">>, <<"U+2620">>,
     <<"U+2620", "U+FE0E", "U+2699">>}

\* SymbolTable before register_standard_symbols
SymbolTable_new == [symbols |-> {}, max_glyph_len |-> 1]

\* SymbolTable::register
register(table, glyph) ==
    [symbols |-> table.symbols \cup {glyph},
     max_glyph_len |-> IF Len(glyph) > table.max_glyph_len THEN Len(glyph)
                       ELSE table.max_glyph_len]

\* the table after each glyph of a set was registered
RECURSIVE registered(_)
registered(glyphs) ==
    IF glyphs = {} THEN SymbolTable_new
    ELSE LET glyph == CHOOSE g \in glyphs : TRUE
         IN register(registered(glyphs \ {glyph}), glyph)

\* SymbolTable::lookup, as `is_some()`
lookup(table, glyph) == glyph \in table.symbols

\* the loop `for len in (1..=n).rev()` of try_match_symbol from len down:
\* the len of the first candidate the table has, 0 when it has none
RECURSIVE first_match(_, _, _)
first_match(table, lookahead_buffer, len) ==
    IF len = 0 THEN 0
    ELSE IF lookup(table, SubSeq(lookahead_buffer, 1, len)) THEN len
    ELSE first_match(table, lookahead_buffer, len - 1)

\* (were the candidates tried from the shortest)
RECURSIVE first_match_up(_, _, _)
first_match_up(table, lookahead_buffer, len) ==
    IF len > Len(lookahead_buffer) THEN 0
    ELSE IF lookup(table, SubSeq(lookahead_buffer, 1, len)) THEN len
    ELSE first_match_up(table, lookahead_buffer, len + 1)
try_match_symbol_Shortest(table, rest) ==
    first_match_up(table,
        SubSeq(rest, 1, IF Len(rest) < table.max_glyph_len THEN Len(rest)
                        ELSE table.max_glyph_len), 1)

\* Lexer::try_match_symbol: how many code points the symbol it found has, 0
\* for None
try_match_symbol(table, rest) ==
    LET lookahead_buffer ==
            SubSeq(rest, 1, IF Len(rest) < table.max_glyph_len THEN Len(rest)
                            ELSE table.max_glyph_len)
    IN first_match(table, lookahead_buffer, Len(lookahead_buffer))

\* Lexer::skip_whitespace_and_comments: what is left after it
RECURSIVE skip_whitespace_and_comments(_)
skip_whitespace_and_comments(rest) ==
    IF rest # <<>> /\ rest[1] = " " THEN skip_whitespace_and_comments(Tail(rest))
    ELSE rest

Token_new(kind, lexeme) == [kind |-> kind, lexeme |-> lexeme]

\* Lexer::next_token: the token or the error, and what is left of the input
next_token(table, input) ==
    LET rest == skip_whitespace_and_comments(input)
        len == try_match_symbol(table, rest)
    IN IF rest = <<>>
       THEN [ok |-> TRUE, token |-> Token_new("Eof", <<>>), chars |-> rest]
       ELSE IF len > 0
       THEN [ok |-> TRUE, token |-> Token_new("Symbol", SubSeq(rest, 1, len)),
             chars |-> SubSeq(rest, len + 1, Len(rest))]
       ELSE IF rest[1] = "="
       THEN [ok |-> TRUE, token |-> Token_new("Equals", <<"=">>), chars |-> Tail(rest)]
       ELSE [ok |-> FALSE, err |-> "UnknownSymbol", chars |-> Tail(rest)]

RECURSIVE Inputs(_)
Inputs(n) ==
    IF n = 0 THEN {<<>>}
    ELSE Inputs(n - 1)
         \cup {Append(input, c) : input \in {i \in Inputs(n - 1) : Len(i) = n - 1},
                                  c \in CodePoints}

\* Lexer::new for an input and a table, and Lexer::tokenize entered
LexInit ==
    /\ source \in Inputs(MaxInput)
    /\ chars = source
    /\ symbol_table \in {registered(glyphs) : glyphs \in SUBSET Glyphs}
    /\ tokens = <<>>
    /\ file = <<>>
    /\ chunks = <<>>
    /\ frames = <<>>
    /\ globals = Scope_new
    /\ stack = <<>>
    /\ exception_handlers = <<>>
    /\ current_exception = <<>>
    /\ halted = FALSE
    /\ output = <<>>
    /\ command = "tokenize"
    /\ result = "running"
    /\ literals = 0
    /\ AccumulatorNew
    /\ LoaderNew /\ ParserNew

\* one turn of the loop of Lexer::tokenize
NextToken ==
    /\ command = "tokenize"
    /\ result = "running"
    /\ \E r \in {next_token(symbol_table, chars)} :
          /\ chars' = r.chars
          /\ tokens' = IF r.ok THEN Append(tokens, r.token) ELSE tokens
          /\ result' = IF ~r.ok THEN r.err
                       ELSE IF r.token.kind = "Eof" THEN "ok" ELSE "running"
    /\ UNCHANGED <<source, file, chunks, frames, globals, stack, exception_handlers,
                   current_exception, halted, output, command, literals, acc_vars,
                   loader_vars, symbol_table, parser_vars>>

LexNext == NextToken

LexSpec == LexInit /\ [][LexNext]_vars

-----------------------------------------------------------------------------
(* vm/context.rs: the accumulator of a Context and its save stack, the     *)
(* methods called in any order.  source is the sequence of the calls made, *)
(* each with its argument and the accumulator it found; command is the     *)
(* method called last.  `+= 1` and `-= 1` on an i64 panic on overflow in a *)
(* build with overflow checks (the dev and test profiles) and wrap in one  *)
(* without (the release profile): a call is made in either build.          *)

\* how many calls are made
MaxCalls == 4

RegisterValues == {I64_MIN, Wide(0, 0), I64_MAX}

Register == [accumulator |-> accumulator, accumulator_stack |-> accumulator_stack,
             panic |-> ""]

\* Context::set_accumulator
set_accumulator(ctx, value) == [ctx EXCEPT !.accumulator = value]

\* Context::increment_accumulator and Context::decrement_accumulator
increment_accumulator(ctx, overflow_checks) ==
    LET sum == Sum(ctx.accumulator, Wide(0, 1))
    IN IF fits_i64(sum) THEN [ctx EXCEPT !.accumulator = sum]
       ELSE IF overflow_checks THEN [ctx EXCEPT !.panic = "panic: attempt to add with overflow"]
       ELSE [ctx EXCEPT !.accumulator = Wrap(sum)]
decrement_accumulator(ctx, overflow_checks) ==
    LET difference == Difference(ctx.accumulator, Wide(0, 1))
    IN IF fits_i64(difference) THEN [ctx EXCEPT !.accumulator = difference]
       ELSE IF overflow_checks
       THEN [ctx EXCEPT !.panic = "panic: attempt to subtract with overflow"]
       ELSE [ctx EXCEPT !.accumulator = Wrap(difference)]

\* Context::push_accumulator
push_accumulator(ctx, initial) ==
    [ctx EXCEPT !.accumulator_stack = Append(@, ctx.accumulator), !.accumulator = initial]

\* Context::pop_accumulator
pop_accumulator(ctx) ==
    IF ctx.accumulator_stack = <<>> THEN ctx
    ELSE [ctx EXCEPT !.accumulator = ctx.accumulator_stack[Len(ctx.accumulator_stack)],
                     !.accumulator_stack = SubSeq(@, 1, Len(@) - 1)]

RegisterInit ==
    /\ source = <<>>
    /\ file = <<>>
    /\ chunks = <<>>
    /\ frames = <<>>
    /\ globals = Scope_new
    /\ stack = <<>>
    /\ exception_handlers = <<>>
    /\ current_exception = <<>>
    /\ halted = FALSE
    /\ output = <<>>
    /\ command = "new"
    /\ result = "running"
    /\ AsideInit

\* the Context after the call
RegisterCalled(method, arg, ctx) ==
    /\ result = "running"
    /\ Len(source) < MaxCalls
    /\ command' = method
    /\ source' = Append(source, [call |-> method, arg |-> arg, found |-> accumulator])
    /\ accumulator' = ctx.accumulator
    /\ accumulator_stack' = ctx.accumulator_stack
    /\ result' = IF ctx.panic = "" THEN "running" ELSE ctx.panic
    /\ UNCHANGED <<file, chunks, frames, globals, stack, exception_handlers,
                   current_exception, halted, output, literals, loader_vars, lexer_vars,
                   parser_vars>>

SetAccumulator(value) ==
    /\ value \in RegisterValues
    /\ RegisterCalled("set_accumulator", <<value>>, set_accumulator(Register, value))
IncrementAccumulator(overflow_checks) ==
    /\ overflow_checks \in BOOLEAN
    /\ RegisterCalled("increment_accumulator", <<>>,
                      increment_accumulator(Register, overflow_checks))
DecrementAccumulator(overflow_checks) ==
    /\ overflow_checks \in BOOLEAN
    /\ RegisterCalled("decrement_accumulator", <<>>,
                      decrement_accumulator(Register, overflow_checks))
PushAccumulator(initial) ==
    /\ initial \in RegisterValues
    /\ RegisterCalled("push_accumulator", <<initial>>, push_accumulator(Register, initial))
PopAccumulator ==
    /\ Len(source) < MaxCalls
    /\ RegisterCalled("pop_accumulator", <<>>, pop_accumulator(Register))

RegisterNext ==
    \/ \E value \in RegisterValues : SetAccumulator(value)
    \/ \E overflow_checks \in BOOLEAN : IncrementAccumulator(overflow_checks)
    \/ \E overflow_checks \in BOOLEAN : DecrementAccumulator(overflow_checks)
    \/ \E initial \in RegisterValues : PushAccumulator(initial)
    \/ PopAccumulator

RegisterSpec == RegisterInit /\ [][RegisterNext]_vars

-----------------------------------------------------------------------------
(* Control flow: nested try blocks, calls through a variable, loops in    *)
(* loops and match statements, compiled and run.                           *)

FlowProgramsOf(v) ==
    << NestedTryProgram(v), ThrowInCatchProgram(v), TwoArgCallProgram(v),
       CalleeWritesProgram(v), IndirectCallProgram(v), ClosureCallProgram(v),
       NotCallableProgram(v) >>
    \o MatchPrograms(v)

RECURSIVE FlowProgramsUpTo(_)
FlowProgramsUpTo(v) ==
    IF v < 0 THEN <<>> ELSE FlowProgramsUpTo(v - 1) \o FlowProgramsOf(v)

FlowPrograms == FlowProgramsUpTo(MaxLit)

\* run_file of one of the control-flow programs
RunFlow ==
    /\ command = "none"
    /\ \E i \in 1..Len(FlowPrograms) : RunFile(FlowPrograms[i])

FlowNext ==
    \/ RunFlow
    \/ Finish
    \/ StepConst
    \/ StepDeclareVar
    \/ StepLoadVar
    \/ StepJump
    \/ StepNull
    \/ StepPop
    \/ StepStoreVar
    \/ StepCall
    \/ StepReturn
    \/ StepLoadFunc
    \/ StepCallClosure
    \/ StepMakeClosure
    \/ StepLoadCapture
    \/ StepTryBegin
    \/ StepTryEnd
    \/ StepThrow
    \/ StepCatch
    \/ StepDup
    \/ StepEq
    \/ StepJumpIfFalse
    \/ StepPrint
    \/ StepHalt

FlowSpec == Init /\ [][FlowNext]_vars

-----------------------------------------------------------------------------
(* The compiler on loops with long bodies.  literals is the number of      *)
(* `push null` statements in the innermost loop body, each compiled to one *)
(* Null byte; source is the loop with a Filler statement in their place,   *)
(* and file is the code the compiler wrote, the Null bytes of the filler   *)
(* left out.                                                               *)

Filler(line) == [k |-> "Filler", line |-> line]

\* a loop that ends in a break and a continue, alone and around a second one
LoopShape == Loop(2, IntE(1), <<Filler(2), Break(3), Continue(3)>>, 3)
NestedLoopShape == Loop(1, IntE(1), <<LoopShape, Break(4), Continue(4)>>, 4)
LoopShapes == {<<LoopShape>>, <<NestedLoopShape>>}

\* body lengths: short ones, and those that take the loop past 65535 bytes
LoopBodies == (0..MaxLit) \cup ((U16Max + 1 - MaxUnder)..(U16Max + 1 + MaxOver))

\* the chunk after n statements `push null`: n Null bytes written by emit_op
fill(c, s, n) ==
    [c EXCEPT !.chunk.code = @ \o [i \in 1..n |-> OpCode.Null],
              !.chunk.lines = @ \o [i \in 1..n |-> s.line]]

RECURSIVE filled_statement(_, _, _), filled_statements(_, _, _)

\* Compiler::statement on a statement with a Filler in it
filled_statement(c, s, n) ==
    CASE s.k = "Filler" -> fill(c, s, n)
      [] s.k = "Loop" ->
            Let([c EXCEPT !.line = s.line], LAMBDA c0 :
            Then(loop_head(c0, s), LAMBDA c2 :
            Then(filled_statements(c2, s.body, n), LAMBDA c3 :
                loop_end(c3, s, Len(c.chunk.code), Len(c2.chunk.code) - 2))))
      [] OTHER -> statement(c, s)

filled_statements(c, ss, n) ==
    IF ss = <<>> \/ c.err # NoError THEN c
    ELSE filled_statements(filled_statement(c, Head(ss), n), Tail(ss), n)

RECURSIVE code_size(_, _), code_sizes(_, _)

\* the bytes a statement of a loop shape takes: Const idx for the condition,
\* JumpIfFalse, Jump and Loop with a 16-bit operand each
code_size(s, n) ==
    CASE s.k = "Filler" -> n
      [] s.k = "Loop" -> 3 + 3 + code_sizes(s.body, n) + 3
      [] OTHER -> 3
code_sizes(ss, n) ==
    IF ss = <<>> THEN 0 ELSE code_size(Head(ss), n) + code_sizes(Tail(ss), n)

RECURSIVE filler_at(_, _, _)
\* the offset of the first filler byte, or -1
filler_at(ss, at, n) ==
    IF ss = <<>> THEN -1
    ELSE IF Head(ss).k = "Filler" THEN at
    ELSE IF Head(ss).k = "Loop" /\ filler_at(Head(ss).body, at + 6, n) >= 0
    THEN filler_at(Head(ss).body, at + 6, n)
    ELSE filler_at(Tail(ss), at + code_size(Head(ss), n), n)

\* the code without the n bytes at offset `at`
cut(code, at, n) ==
    IF at < 0 THEN code ELSE SubSeq(code, 1, at) \o SubSeq(code, at + n + 1, Len(code))

LoopInit ==
    /\ source = <<>>
    /\ file = <<>>
    /\ chunks = <<>>
    /\ frames = <<>>
    /\ globals = Scope_new
    /\ stack = <<>>
    /\ exception_handlers = <<>>
    /\ current_exception = <<>>
    /\ halted = FALSE
    /\ output = <<>>
    /\ command = "compile"
    /\ result = "compiling"
    /\ literals \in LoopBodies
    /\ AccumulatorNew /\ LoaderNew /\ LexerNew /\ ParserNew

\* the compiler compiles the loop ss, its filler `literals` statements long
CompileLoop(ss) ==
    /\ result = "compiling"
    /\ source' = ss
    /\ \E c \in {filled_statements(Compiler_new, ss, literals)} :
          /\ file' = cut(c.chunk.code, filler_at(ss, 0, literals), literals)
          /\ result' = IF c.err = NoError THEN "compiled" ELSE c.err
    /\ UNCHANGED <<chunks, frames, globals, stack, exception_handlers, current_exception,
                   halted, output, command, aside>>

LoopNext == \E ss \in LoopShapes : CompileLoop(ss)

LoopSpec == LoopInit /\ [][LoopNext]_vars

-----------------------------------------------------------------------------
(* Frames and scopes: declarations met twice in one frame, the same name  *)
(* in two frames, and calls whose argument count is not the parameter      *)
(* count, compiled and run.                                                *)

\* a loop whose body declares y: the second iteration meets the declaration again
RedeclareInLoopProgram(v) ==
    << Loop(1, IntE(1),
            <<VarDecl(1, ValueType.Integer, FALSE, "y", <<IntE(v)>>), Output(1, Id("y"))>>, 1),
       EndProgram(2) >>

\* x at the top level and x in f: f prints its own, the top level its own
ShadowProgram(v) ==
    << VarDecl(1, ValueType.Integer, FALSE, "x", <<IntE(v)>>),
       Function(2, "f", <<>>,
                << VarDecl(2, ValueType.Integer, FALSE, "x", <<IntE(Other(v))>>),
                   Output(2, Id("x")), Return(2, <<IntE(v)>>) >>, 2),
       Push(3, CallE("f", <<>>)),
       Output(4, Id("x")),
       EndProgram(5) >>

\* two parameters of one name; a local of the name of a parameter
DuplicateParamProgram(v) ==
    << Function(1, "f", <<IntParam("a"), IntParam("a")>>, <<Return(1, <<Id("a")>>)>>, 1),
       Output(2, CallE("f", <<IntE(v), IntE(Other(v))>>)),
       EndProgram(3) >>
ParamClashProgram(v) ==
    << Function(1, "f", <<IntParam("a")>>,
                << VarDecl(1, ValueType.Integer, FALSE, "a", <<IntE(Other(v))>>),
                   Return(1, <<Id("a")>>) >>, 1),
       Output(2, CallE("f", <<IntE(v)>>)),
       EndProgram(3) >>

\* a catch binding of the name of a variable of the frame
CatchClashProgram(v) ==
    << VarDecl(1, ValueType.Integer, FALSE, "e", <<IntE(v)>>),
       TryCatch(2, <<Throw(2, StrE("boom"))>>, <<"e">>, <<Output(3, Id("e"))>>, 4),
       Output(5, Id("e")),
       EndProgram(6) >>

\* f(a, b) called with one argument, f(a) called with two
TooFewArgsProgram(v) ==
    << Function(1, "f", <<IntParam("a"), IntParam("b")>>,
                <<Output(1, Id("a")), Output(1, Id("b")), Return(1, <<IntE(v)>>)>>, 1),
       Push(2, CallE("f", <<IntE(v)>>)),
       EndProgram(3) >>
TooManyArgsProgram(v) ==
    << Function(1, "f", <<IntParam("a")>>,
                <<Output(1, Id("a")), Return(1, <<IntE(v)>>)>>, 1),
       Push(2, CallE("f", <<IntE(v), IntE(Other(v))>>)),
       EndProgram(3) >>

\* f pops though it pushed nothing: the value under it is its caller's
PopInCalleeProgram(v) ==
    << Function(1, "f", <<>>, <<PopS(1), Return(1, <<IntE(Other(v))>>)>>, 1),
       Push(2, IntE(v)),
       Push(3, CallE("f", <<>>)),
       EndProgram(4) >>

ScopeProgramsOf(v) ==
    << RedeclareInLoopProgram(v), ShadowProgram(v), DuplicateParamProgram(v),
       ParamClashProgram(v), CatchClashProgram(v), TooFewArgsProgram(v),
       TooManyArgsProgram(v), PopInCalleeProgram(v) >>

RECURSIVE ScopeProgramsUpTo(_)
ScopeProgramsUpTo(v) ==
    IF v < 0 THEN <<>> ELSE ScopeProgramsUpTo(v - 1) \o ScopeProgramsOf(v)

ScopePrograms == ScopeProgramsUpTo(MaxLit)

RunScope ==
    /\ command = "none"
    /\ \E i \in 1..Len(ScopePrograms) : RunFile(ScopePrograms[i])

ScopeNext ==
    \/ RunScope
    \/ Finish
    \/ StepConst
    \/ StepPop
    \/ StepDeclareVar
    \/ StepLoadVar
    \/ StepJump
    \/ StepJumpIfFalse
    \/ StepLoop
    \/ StepCall
    \/ StepReturn
    \/ StepTryBegin
    \/ StepThrow
    \/ StepCatch
    \/ StepPrint
    \/ StepHalt

ScopeSpec == Init /\ [][ScopeNext]_vars

-----------------------------------------------------------------------------
(* The compiler over its tokens.  source is the token sequence, each token *)
(* written by its kind or its symbol's meaning and the last one Eof;       *)
(* current is Compiler.current and position the calls that have not        *)
(* returned, innermost last.  The sources are the programs below cut after *)
(* any number of tokens.  They hold no operator symbol, so each level of   *)
(* Compiler::expression calls the next once and primary does the work.     *)
(* What is emitted is left out: no branch of the parser reads the chunk.   *)

\* array a=[1,b] end;  map m={1=>2,3=>b} end;  push[call f[1,2]] end;
\* loop[1] array a=[1] push[2] loop-end end;  and push[1]] end, whose second ]
\* begins no statement
ArrayTokens ==
    << "TypeArray", "Identifier", "Equals", "LeftBracket", "Integer", "Separator",
       "Identifier", "RightBracket", "EndProgram" >>
MapTokens ==
    << "TypeMap", "Identifier", "Equals", "LeftBrace", "Integer", "MapArrow", "Integer",
       "Separator", "Integer", "MapArrow", "Identifier", "RightBrace", "EndProgram" >>
CallTokens ==
    << "Push", "LeftBracket", "Call", "Identifier", "LeftBracket", "Integer", "Separator",
       "Integer", "RightBracket", "RightBracket", "EndProgram" >>
LoopTokens ==
    << "LoopStart", "LeftBracket", "Integer", "RightBracket", "TypeArray", "Identifier",
       "Equals", "LeftBracket", "Integer", "RightBracket", "Push", "LeftBracket",
       "Integer", "RightBracket", "LoopEnd", "EndProgram" >>
StrayTokens == <<"Push", "LeftBracket", "Integer", "RightBracket", "RightBracket", "EndProgram">>
TokenPrograms == {ArrayTokens, MapTokens, CallTokens, LoopTokens, StrayTokens}

\* the lexer's tokens for a source that stops after n tokens of ts
CutAfter(ts, n) == Append(SubSeq(ts, 1, n), "Eof")
TokenSources == UNION {{CutAfter(ts, n) : n \in 0..Len(ts)} : ts \in TokenPrograms}

\* Compiler::is_at_end, Compiler::check_symbol (and check, on a kind)
is_at_end(ts, cur) == ts[cur + 1] = "Eof"
check_symbol(ts, cur, meaning) == ts[cur + 1] = meaning

\* Compiler::advance: [current, token], the token being previous(), which is
\* tokens[current.saturating_sub(1)]
advance(ts, cur) ==
    LET next == IF is_at_end(ts, cur) THEN cur ELSE cur + 1
    IN [current |-> next, token |-> ts[IF next = 0 THEN 1 ELSE next]]

\* the parser between two calls: where it is and the error it returned
Parser(cur) == [current |-> cur, err |-> NoError]
Parsed(q) == q.err = NoError

\* Compiler::match_symbol
match_symbol(ts, q, meaning) ==
    IF Parsed(q) /\ check_symbol(ts, q.current, meaning)
    THEN [q EXCEPT !.current = advance(ts, q.current).current]
    ELSE q

\* Compiler::consume_symbol, and consume and consume_identifier on a kind
consume_symbol(ts, q, meaning) ==
    IF ~Parsed(q) THEN q
    ELSE IF check_symbol(ts, q.current, meaning)
    THEN [q EXCEPT !.current = advance(ts, q.current).current]
    ELSE IF is_at_end(ts, q.current) THEN [q EXCEPT !.err = "UnexpectedEof"]
    ELSE [q EXCEPT !.err = "UnexpectedToken"]
consume(ts, q, kind) == consume_symbol(ts, q, kind)
consume_identifier(ts, q) == consume_symbol(ts, q, "Identifier")

RECURSIVE parse_primary(_, _), parse_arguments(_, _), parse_function_call(_, _)

\* Compiler::expression, through or_expression .. unary_expression
parse_expression(ts, q) == IF Parsed(q) THEN parse_primary(ts, q) ELSE q

\* Compiler::primary
parse_primary(ts, q) ==
    LET a == advance(ts, q.current)
        q1 == [q EXCEPT !.current = a.current]
    IN CASE a.token \in {"Integer", "Identifier"} -> q1
         [] a.token = "Call" -> parse_function_call(ts, q1)
         [] OTHER -> [q1 EXCEPT !.err = "UnexpectedToken"]

\* Compiler::function_call: the loop over the arguments
parse_arguments(ts, q) ==
    LET q1 == parse_expression(ts, q)
    IN IF ~Parsed(q1) THEN q1
       ELSE IF check_symbol(ts, q1.current, "Separator")
       THEN parse_arguments(ts, match_symbol(ts, q1, "Separator"))
       ELSE q1

\* Compiler::function_call
parse_function_call(ts, q) ==
    LET q1 == consume_symbol(ts, consume_identifier(ts, q), "LeftBracket")
        q2 == IF check_symbol(ts, q1.current, "RightBracket") THEN q1
              ELSE parse_arguments(ts, q1)
    IN IF ~Parsed(q1) THEN q1 ELSE consume_symbol(ts, q2, "RightBracket")

\* Compiler::push_statement
parse_push_statement(ts, q) ==
    LET q1 == [q EXCEPT !.current = advance(ts, q.current).current]
    IN consume_symbol(ts, parse_expression(ts, consume_symbol(ts, q1, "LeftBracket")),
                      "RightBracket")

\* Compiler::loop_statement, up to the loop over the body
parse_loop_head(ts, q) == parse_push_statement(ts, q)

\* Compiler::array_declaration and map_declaration, up to the loop over the
\* elements
parse_literal_head(ts, q, open) ==
    LET q1 == [q EXCEPT !.current = advance(ts, q.current).current]
    IN consume_symbol(ts, consume(ts, consume_identifier(ts, q1), "Equals"), open)

\* had_end_program: an end mark was compiled as a statement; no other call consumes one
\* and returns Ok
had_end_program(ts, cur) == \E i \in 1..cur : ts[i] = "EndProgram"

\* the call in progress, and what every call does when one returns an error
Innermost == position[Len(position)]
Returned == SubSeq(position, 1, Len(position) - 1)
ParseUnchanged ==
    UNCHANGED <<source, file, chunks, frames, globals, stack, exception_handlers,
                current_exception, halted, output, command, literals, acc_vars,
                loader_vars, lexer_vars>>
ParseFails(err) ==
    /\ result' = err
    /\ position' = <<>>
    /\ UNCHANGED <<current, counted>>
    /\ ParseUnchanged
ParseMoves(q, pos) ==
    IF Parsed(q)
    THEN /\ current' = q.current
         /\ position' = pos
         /\ UNCHANGED <<result, counted>>
         /\ ParseUnchanged
    ELSE ParseFails(q.err)

\* Compiler::compile is called on the tokens of a source
CompileTokens ==
    /\ command = "none"
    /\ command' = "compile"
    /\ \E ts \in TokenSources : source' = ts
    /\ result' = "compiling"
    /\ current' = 0
    /\ counted' = 0
    /\ position' = <<"compile">>
    /\ UNCHANGED <<file, chunks, frames, globals, stack, exception_handlers,
                   current_exception, halted, output, literals, acc_vars, loader_vars,
                   lexer_vars>>

\* the loops over statements: `while !self.is_at_end()` of compile and
\* `while !self.check_symbol(LoopEnd) && !self.is_at_end()` of loop_statement
InStatements ==
    /\ result = "compiling"
    /\ position # <<>>
    /\ \/ Innermost = "compile" /\ ~is_at_end(source, current)
       \/ /\ Innermost = "loop_statement"
          /\ ~check_symbol(source, current, "LoopEnd")
          /\ ~is_at_end(source, current)
StatementIs(meaning) == InStatements /\ check_symbol(source, current, meaning)

\* Compiler::statement on Push, on EndProgram and on a token no statement begins with
PushStatement ==
    /\ StatementIs("Push")
    /\ ParseMoves(parse_push_statement(source, Parser(current)), position)
EndProgramStatement ==
    /\ StatementIs("EndProgram")
    /\ ParseMoves(Parser(advance(source, current).current), position)
StatementTokens == {"Push", "EndProgram", "LoopStart", "TypeArray", "TypeMap", "Identifier"}
OtherStatement ==
    /\ InStatements
    /\ source[current + 1] \notin StatementTokens
    /\ ParseFails("UnexpectedToken")

\* Compiler::statement on LoopStart: loop_statement up to its body
LoopStatement ==
    /\ StatementIs("LoopStart")
    /\ ParseMoves(parse_loop_head(source, Parser(current)),
                  Append(position, "loop_statement"))

\* loop_statement after its body: consume_symbol(LoopEnd)
LoopStatementEnd ==
    /\ result = "compiling"
    /\ position # <<>>
    /\ Innermost = "loop_statement"
    /\ check_symbol(source, current, "LoopEnd") \/ is_at_end(source, current)
    /\ ParseMoves(consume_symbol(source, Parser(current), "LoopEnd"), Returned)

\* Compiler::statement on TypeArray and on TypeMap: the declaration up to its loop, which an
\* empty literal skips
LiteralStatement(open, close, call) ==
    /\ counted' = 0
    /\ \E q \in {parse_literal_head(source, Parser(current), open)} :
          IF ~Parsed(q)
          THEN /\ result' = q.err
               /\ position' = <<>>
               /\ UNCHANGED current
          ELSE IF check_symbol(source, q.current, close)
          THEN /\ current' = consume_symbol(source, q, close).current
               /\ UNCHANGED <<result, position>>
          ELSE /\ current' = q.current
               /\ position' = Append(position, call)
               /\ UNCHANGED result
    /\ ParseUnchanged
ArrayStatement ==
    /\ StatementIs("TypeArray")
    /\ LiteralStatement("LeftBracket", "RightBracket", "array_declaration")
MapStatement ==
    /\ StatementIs("TypeMap")
    /\ LiteralStatement("LeftBrace", "RightBrace", "map_declaration")

\* `count += 1` on a u16: past 65535 a build with overflow checks panics and
\* one without wraps
Counted(n) ==
    IF n < U16Max THEN {[panic |-> FALSE, n |-> n + 1]}
    ELSE {[panic |-> TRUE, n |-> n], [panic |-> FALSE, n |-> 0]}

\* one turn of a literal's loop, q being the parser after the element: count,
\* then leave the loop on the closing symbol and consume it, or pass a separator
LiteralTurn(q, close) ==
    IF ~Parsed(q)
    THEN /\ result' = q.err
         /\ position' = <<>>
         /\ UNCHANGED <<current, counted>>
    ELSE \E c \in Counted(counted) :
            IF c.panic
            THEN /\ result' = "panic"
                 /\ position' = <<>>
                 /\ UNCHANGED <<current, counted>>
            ELSE /\ counted' = c.n
                 /\ UNCHANGED result
                 /\ IF check_symbol(source, q.current, close)
                    THEN /\ current' = consume_symbol(source, q, close).current
                         /\ position' = Returned
                    ELSE /\ current' = match_symbol(source, q, "Separator").current
                         /\ UNCHANGED position

\* one turn of the loop of array_declaration
ArrayElement ==
    /\ result = "compiling"
    /\ position # <<>>
    /\ Innermost = "array_declaration"
    /\ LiteralTurn(parse_expression(source, Parser(current)), "RightBracket")
    /\ ParseUnchanged

\* one turn of the loop of map_declaration
MapPair ==
    /\ result = "compiling"
    /\ position # <<>>
    /\ Innermost = "map_declaration"
    /\ LiteralTurn(parse_expression(source,
                       consume_symbol(source, parse_expression(source, Parser(current)),
                                      "MapArrow")),
                   "RightBrace")
    /\ ParseUnchanged

\* compile after its loop: the chunk, or MissingEndProgram
CompileReturns ==
    /\ result = "compiling"
    /\ position = <<"compile">>
    /\ is_at_end(source, current)
    /\ result' = IF had_end_program(source, current) THEN "compiled" ELSE "MissingEndProgram"
    /\ position' = <<>>
    /\ UNCHANGED <<current, counted>>
    /\ ParseUnchanged

ParseNext ==
    \/ CompileTokens
    \/ PushStatement
    \/ EndProgramStatement
    \/ OtherStatement
    \/ LoopStatement
    \/ LoopStatementEnd
    \/ ArrayStatement
    \/ MapStatement
    \/ ArrayElement
    \/ MapPair
    \/ CompileReturns

ParseSpec == Init /\ [][ParseNext]_vars

-----------------------------------------------------------------------------
(* Map literals: a map declaration of up to MaxPairs pairs, compiled and   *)
(* run.                                                                    *)

\* how many pairs a map literal holds
MaxPairs == 2

LiteralKeys(v) == {IntE(v), IntE(Other(v)), StrE("s")}
LiteralPairs(v) == {<<key, IntE(e)>> : key \in LiteralKeys(v), e \in {v, Other(v)}}
MapLiterals ==
    UNION {[1..n -> LiteralPairs(v)] : n \in 0..MaxPairs, v \in 0..MaxLit}
MapLiteralProgram(pairs) == << MapDecl(1, "m", pairs), EndProgram(2) >>

RunLiteral ==
    /\ command = "none"
    /\ \E pairs \in MapLiterals : RunFile(MapLiteralProgram(pairs))

LiteralNext ==
    \/ RunLiteral
    \/ Finish
    \/ StepConst
    \/ StepMakeMap
    \/ StepDeclareVar
    \/ StepHalt

LiteralSpec == Init /\ [][LiteralNext]_vars

-----------------------------------------------------------------------------
(* Properties *)

\* the frame the next instruction runs in, and the operand after its opcode
Top == frames[Len(frames)]
OperandU16 == read_u16_at(chunk.code, Ip + 1)
OperandName == chunk.strings[OperandU16 + 1]

\* the elements of a sequence
Range(seq) == {seq[i] : i \in 1..Len(seq)}

\* the driver ran a program (from source or from a file) and the run is over
Ran == command \in {"run", "load"}

\* C1: whenever a Throw is caught (a value to throw is on the stack and a
\* handler is installed), the step that resumes at handler_ip leaves the operand
\* stack at the length the handler's TryBegin recorded (stack_depth) and the
\* call stack at the depth it recorded (frame_depth).
C1_ThrowRestoresDepths ==
    [][ (Fetch(OpCode.Throw) /\ stack # <<>> /\ exception_handlers # <<>>)
        => LET installed == exception_handlers[Len(exception_handlers)]
           IN /\ Len(stack') = installed.stack_depth
              /\ Len(frames') = installed.frame_depth ]_vars

\* a try statement of the program's top level has a finally block whose body
\* prints "finally"
PrintsFinally(st) ==
    /\ st.k = "Try"
    /\ st.finally
    /\ \E j \in 1..Len(st.finally_body) :
          /\ st.finally_body[j].k = "Output"
          /\ st.finally_body[j].expr.k = "String"
          /\ st.finally_body[j].expr.v = "finally"
HasFinally == \E i \in 1..Len(source) : PrintsFinally(source[i])

\* C2: the finally body of a try statement is executed when the try body
\* completes without throwing and when its Throw is caught: a run of a program
\* with such a statement that ends normally has printed what the finally body
\* prints.
C2_FinallyOnBothPaths ==
    (Ran /\ result = "ok" /\ HasFinally) => "finally" \in Range(output)

\* C3: a LoadVar or StoreVar never resolves to a local of another live function
\* frame: the name is found in the running frame, in no frame at all (globals),
\* or in the "main" frame, whose scope holds the variables of the top level.
C3_NoOtherFrameLocal ==
    (Fetch(OpCode.LoadVar) \/ Fetch(OpCode.StoreVar))
        => frame_of(frames, OperandName) \in {0, 1, Len(frames)}

\* the function running in frame fr lists name among its capture_names
CapturesName(fr, name) ==
    \E k \in 1..Len(chunk.functions) :
        /\ chunk.functions[k].name = fr.name
        /\ name \in Range(chunk.functions[k].capture_names)

\* C4: an assignment, inside a closure, to a name the closure's function
\* captures changes no variable of any frame below the closure's frame: the
\* enclosing function's local keeps its value, also while its frame is live.
C4_CapturedAssignKeepsOuterLocal ==
    [][ (/\ Fetch(OpCode.StoreVar)
         /\ Top.closure # <<>>
         /\ CapturesName(Top, OperandName)
         /\ result' = "running")
        => \A i \in 1..(Len(frames) - 1) : frames'[i].scope = frames[i].scope ]_vars

\* two values are the same value
ValEq(a, b) == a.t = b.t /\ a.v = b.v

\* every variable of every scope but the one named `name` in frame `i` is the same
\* after the step
OtherVariablesKept(i, name) ==
    /\ globals' = globals
    /\ \A j \in 1..Len(frames) :
          /\ DOMAIN frames'[j].scope = DOMAIN frames[j].scope
          /\ \A x \in DOMAIN frames[j].scope :
                (j # i \/ x # name) => frames'[j].scope[x] = frames[j].scope[x]

\* C5: captures are snapshots taken by value. A StoreVar changes no closure:
\* not the closure of any frame, not a closure value on the operand stack or in
\* another variable; so the captures a closure was made with are the ones
\* LoadCapture reads, which returns the capture stored in the running frame's
\* closure. A StoreCapture changes no variable of any scope and no closure of
\* another frame.
C5_CapturesAreSnapshots ==
    [][ /\ Fetch(OpCode.StoreVar)
           => /\ \A i \in 1..Len(frames) : frames'[i].closure = frames[i].closure
              /\ OtherVariablesKept(frame_of(frames, OperandName), OperandName)
              /\ Len(stack') <= Len(stack)
              /\ \A i \in 1..Len(stack') : ValEq(stack'[i], stack[i])
        /\ Fetch(OpCode.StoreCapture)
           => /\ OtherVariablesKept(0, "")
              /\ \A i \in 1..(Len(frames) - 1) : frames'[i].closure = frames[i].closure
              /\ \A i \in 1..Len(stack') : ValEq(stack'[i], stack[i])
        /\ (Fetch(OpCode.LoadCapture) /\ result' = "running")
           => /\ Len(stack') = Len(stack) + 1
              /\ ValEq(stack'[Len(stack')], Top.closure[1].captures[OperandU16 + 1]) ]_vars

\* a closure is running whose capture differs from the present value of the
\* variable n of the frame below: the variable was assigned after MakeClosure,
\* or the capture was stored to
C5_Witness ==
    /\ Ran /\ result = "running"
    /\ Len(frames) >= 2
    /\ Top.closure # <<>>
    /\ Top.closure[1].captures # <<>>
    /\ Scope_contains(frames[Len(frames) - 1].scope, "n")
    /\ ~ValEq(Top.closure[1].captures[1], frames[Len(frames) - 1].scope["n"].value)
    /\ CurrentOp \in {OpCode.LoadCapture, OpCode.Return}

\* the assignments C6 lets through: Null to an optional variable, a value of the
\* declared type to any variable
Accepted(declared, assigned) ==
    IF assigned.t = ValueType.Null THEN declared.optional
    ELSE assigned.t = declared.var_type

\* C6: StoreVar on an existing variable succeeds, and stores the value, exactly
\* when the value is Null and the variable is optional, or the value is not Null
\* and its type is the variable's declared type (var_type); otherwise it fails
\* with NullAssignment or TypeMismatch and the variable keeps its value.
C6_AssignmentByDeclaredType ==
    [][ (Fetch(OpCode.StoreVar) /\ stack # <<>> /\ frame_of(frames, OperandName) > 0)
        => \A at \in {frame_of(frames, OperandName)} :
              IF Accepted(frames[at].scope[OperandName], stack[Len(stack)])
              THEN /\ result' = "running"
                   /\ ValEq(frames'[at].scope[OperandName].value, stack[Len(stack)])
              ELSE /\ result' \in {"NullAssignment", "TypeMismatch"}
                   /\ ValEq(frames'[at].scope[OperandName].value,
                            frames[at].scope[OperandName].value) ]_vars

\* the program declares x and next assigns Null to it
AssignsNullToDeclared ==
    /\ Len(source) >= 2
    /\ source[1].k = "VarDecl"
    /\ source[2].k = "SimpleAssign"
    /\ source[2].name = source[1].name
    /\ source[2].expr.k = "Null"

\* C7: a variable declared with the optional modifier accepts a later Null with
\* or without an initializer in its declaration; a variable declared without
\* the modifier and with a non-Null initializer rejects a later Null.
C7_OptionalIsTheModifier ==
    (Ran /\ AssignsNullToDeclared)
        => /\ source[1].optional => result # "NullAssignment"
           /\ (/\ ~source[1].optional
               /\ source[1].init # <<>>
               /\ source[1].init[1].k # "Null") => result # "ok"

\* C8: a frame of a function with captures carries a closure with as many
\* captures as the function has capture_names, and no Call instruction the
\* compiler emitted names such a function.
C8_CapturingFunctionHasClosure ==
    (command = "run" /\ chunks # <<>>)
        => /\ \A i \in 1..Len(frames) : \A k \in 1..Len(chunk.functions) :
                 (/\ chunk.functions[k].name = frames[i].name
                  /\ chunk.functions[k].capture_names # <<>>)
                 => /\ frames[i].closure # <<>>
                    /\ Len(frames[i].closure[1].captures)
                          = Len(chunk.functions[k].capture_names)
           /\ Fetch(OpCode.Call)
                 => chunk.functions[OperandU16 + 1].capture_names = <<>>

\* C9: deserializing the bytes serialize wrote for a compiled chunk succeeds
\* and gives the chunk back, every field of every function included.
C9_RoundTrip ==
    (command = "compile" /\ result = "compiled")
        => \E c \in {compile(source)} : \E d \in {deserialize(file)} :
              /\ d.ok
              /\ d.chunk.name = c.chunk.name
              /\ d.chunk.code = c.chunk.code
              /\ d.chunk.strings = c.chunk.strings
              /\ d.chunk.lines = c.chunk.lines
              /\ Len(d.chunk.constants) = Len(c.chunk.constants)
              /\ \A i \in 1..Len(c.chunk.constants) :
                    ValEq(d.chunk.constants[i], c.chunk.constants[i])
              /\ d.chunk.functions = c.chunk.functions

\* what a rejected file leaves behind: no chunk, no frame, no output
NothingLoaded == chunks = <<>> /\ frames = <<>> /\ output = <<>>
HasMagic == Len(file) >= Len(MAGIC) /\ SubSeq(file, 1, Len(MAGIC)) = MAGIC
LacksMagic == Len(file) >= Len(MAGIC) /\ SubSeq(file, 1, Len(MAGIC)) # MAGIC

\* C10: an input with a whole header (the magic and the four version bytes),
\* the magic OBFK and a major version other than the runtime's is rejected with
\* IncompatibleVersion and nothing is loaded, whatever the other bytes are; with
\* the runtime's major version it is not rejected for its version; an input
\* whose first four bytes are not the magic is rejected with InvalidMagic.
C10_VersionGate ==
    command = "load"
        => /\ (HasMagic /\ Len(file) >= HeaderLen /\ file[Len(MAGIC) + 1] # VERSION_MAJOR)
                 => (result = "IncompatibleVersion" /\ NothingLoaded)
           /\ (HasMagic /\ Len(file) >= HeaderLen /\ file[Len(MAGIC) + 1] = VERSION_MAJOR)
                 => result # "IncompatibleVersion"
           /\ LacksMagic => (result = "InvalidMagic" /\ NothingLoaded)

\* a file with the magic, another major version and another minor version and
\* further bytes was rejected for its version
C10_Witness ==
    /\ command = "load"
    /\ HasMagic
    /\ Len(file) > HeaderLen
    /\ file[Len(MAGIC) + 1] # VERSION_MAJOR
    /\ file[Len(MAGIC) + 2] # VERSION_MINOR
    /\ result = "IncompatibleVersion"

\* C10 as stated: every input with the magic and a major-version byte other
\* than the runtime's is rejected with IncompatibleVersion, also one that ends
\* before its header does.
C10_EveryOtherMajor ==
    (command = "load" /\ HasMagic /\ Len(file) > Len(MAGIC)
        /\ file[Len(MAGIC) + 1] # VERSION_MAJOR)
        => (result = "IncompatibleVersion" /\ NothingLoaded)

\* C11: a run of a compiled program that ends without an error has halted in
\* the top-level frame: at the halt the "main" frame is the only frame on the
\* call stack, every other frame having been removed before.
C11_HaltsInTopLevelFrame ==
    (command = "run" /\ result = "ok")
        => (Len(frames) = 1 /\ frames[1].name = "main")

\* the name resolves in no live frame and not in the globals
Unresolvable(name) == frame_of(frames, name) = 0 /\ ~Scope_contains(globals, name)

\* C12: Return removes the function's frame with its scope: after it, a name of
\* that scope resolves in no frame, or in the frame of a still-live variable of
\* the same name, which is as it was; and a LoadVar or StoreVar of a name that
\* resolves nowhere fails with UndeclaredVariable.
C12_LocalsGoneAfterReturn ==
    [][ /\ (Fetch(OpCode.Return) /\ result' = "running")
           => /\ Len(frames') = Len(frames) - 1
              /\ \A x \in DOMAIN Top.scope :
                    \A at \in {frame_of(frames', x)} :
                       at # 0 => /\ Scope_contains(frames[at].scope, x)
                                 /\ frames'[at].scope[x] = frames[at].scope[x]
        /\ ((Fetch(OpCode.LoadVar) \/ Fetch(OpCode.StoreVar))
               /\ stack # <<>> /\ Unresolvable(OperandName))
           => result' = "UndeclaredVariable" ]_vars

\* leave has returned and the top level's lookup of one of its names failed
C12_Witness ==
    /\ command = "run"
    /\ source[1].k = "Function" /\ source[1].name = "leave"
    /\ Len(frames) = 1
    /\ output = <<>>
    /\ result = "UndeclaredVariable"

\* C13: a Throw that finds no exception handler ends the run with the
\* unhandled-exception error, which carries the thrown value as it prints; the
\* step pops no frame, changes no variable, writes no output and installs
\* nothing, and the error is what the driver returns (nothing runs after it).
C13_UnhandledThrowIsFatal ==
    [][ (Fetch(OpCode.Throw) /\ stack # <<>> /\ exception_handlers = <<>>)
        => /\ result' = "TypeMismatch: unhandled exception: "
                           \o to_string_value(stack[Len(stack)])
           /\ Len(frames') = Len(frames)
           /\ \A i \in 1..Len(frames) : /\ frames'[i].scope = frames[i].scope
                                        /\ frames'[i].name = frames[i].name
           /\ exception_handlers' = <<>>
           /\ output' = output
           /\ ~halted' ]_vars

\* the throw in f, two frames deep, ended the run; what follows the call did not run
C13_Witness ==
    /\ command = "run"
    /\ Len(frames) = 2
    /\ exception_handlers = <<>>
    /\ output = <<"0">>
    /\ result = "TypeMismatch: unhandled exception: 1"

\* C14: a fetched opcode byte that is no opcode ends the run with the
\* unknown-opcode error, and a DeclareVar whose type byte is no ValueType ends
\* it with the unknown-value-type error: the step runs no defined instruction
\* and declares no variable of a defined type.
C14_UndefinedBytesRejected ==
    [][ /\ (Running /\ ~halted /\ frames # <<>> /\ ~AtEnd /\ CurrentOp \notin DefinedOpcodes)
           => result' = "UnknownOpcode"
        /\ (/\ Fetch(OpCode.DeclareVar)
            /\ Ip + 4 <= Len(chunk.code)
            /\ chunk.code[Ip + 4] \notin DefinedValueTypes)
           => result' = "UnknownValueType" ]_vars

\* the statements ss, or the bodies nested in them, hold the end-of-program mark
RECURSIVE ContainsEndProgram(_)
ContainsEndProgram(ss) ==
    \E i \in 1..Len(ss) :
        \/ ss[i].k = "EndProgram"
        \/ ss[i].k \in {"Function", "Loop"} /\ ContainsEndProgram(ss[i].body)
        \/ ss[i].k = "Try" /\ \/ ContainsEndProgram(ss[i].body)
                              \/ ContainsEndProgram(ss[i].catch_body)
                              \/ ContainsEndProgram(ss[i].finally_body)

\* C15: a chunk came out of compile (it runs, or its bytes were written) only
\* when the source held the end-of-program mark; a source without the mark
\* that compiles once the mark is put at its end fails with MissingEndProgram,
\* and no chunk is run or written.
C15_ChunkOnlyWithEndProgram ==
    source # <<>> =>
        /\ (chunks # <<>> \/ file # <<>>) => ContainsEndProgram(source)
        /\ (~ContainsEndProgram(source) /\ compile(Append(source, EndProgram(0))).ok)
              => (result = "MissingEndProgram" /\ chunks = <<>> /\ file = <<>>)

\* the function and its call compiled, and the missing mark refused the chunk
C15_Witness ==
    /\ Len(source) = 2
    /\ source[1].k = "Function"
    /\ ~ContainsEndProgram(source)
    /\ result = "MissingEndProgram"
    /\ chunks = <<>>

\* a statement of kind k stands in ss where no statement of kind encl
\* ("Loop" or "Function") is open around it; the compiler keeps its loop stack
\* through a function body and its function stack through a loop body
RECURSIVE Outside(_, _, _)
Outside(ss, k, encl) ==
    \E i \in 1..Len(ss) :
        \/ ss[i].k = k
        \/ ss[i].k \in {"Function", "Loop"} \ {encl} /\ Outside(ss[i].body, k, encl)
        \/ ss[i].k = "Try" /\ \/ Outside(ss[i].body, k, encl)
                              \/ Outside(ss[i].catch_body, k, encl)
                              \/ Outside(ss[i].finally_body, k, encl)

NoChunk == chunks = <<>> /\ file = <<>>

\* C16: a source with a break or a continue outside every loop, or a return
\* outside every function, yields no chunk; the error is the one
\* break_statement and continue_statement make (UnexpectedToken), respectively
\* ReturnOutsideFunction, when the source has no other fault (it compiles once
\* a loop, respectively a function, is put around it).  A source whose breaks
\* and continues are all inside loops and whose returns are all inside
\* functions fails with neither error.
C16_ExitsNeedTheirConstruct ==
    source # <<>> =>
        /\ (Outside(source, "Break", "Loop") \/ Outside(source, "Continue", "Loop"))
              => /\ NoChunk
                 /\ compile(<<Loop(0, NullE, source, 0)>>).ok => result = "UnexpectedToken"
        /\ Outside(source, "Return", "Function")
              => /\ NoChunk
                 /\ compile(<<Function(0, "", <<>>, source, 0)>>).ok
                       => result = "ReturnOutsideFunction"
        /\ ~(\/ Outside(source, "Break", "Loop")
             \/ Outside(source, "Continue", "Loop")
             \/ Outside(source, "Return", "Function"))
              => result \notin {"UnexpectedToken", "ReturnOutsideFunction"}

\* the break inside f's body, with no loop around the function, was refused
C16_Witness ==
    /\ source # <<>>
    /\ source[1].k = "Function"
    /\ Outside(source, "Break", "Loop")
    /\ result = "UnexpectedToken"
    /\ NoChunk

\* the names of the functions ss defines, nested definitions included
RECURSIVE FunctionNames(_)
FunctionNames(ss) ==
    IF ss = <<>> THEN <<>>
    ELSE (CASE Head(ss).k = "Function" ->
                  <<Head(ss).name>> \o FunctionNames(Head(ss).body)
            [] Head(ss).k = "Loop" -> FunctionNames(Head(ss).body)
            [] Head(ss).k = "Try" ->
                  FunctionNames(Head(ss).body) \o FunctionNames(Head(ss).catch_body)
                      \o FunctionNames(Head(ss).finally_body)
            [] OTHER -> <<>>)
         \o FunctionNames(Tail(ss))

Distinct(names) == \A i, j \in 1..Len(names) : names[i] = names[j] => i = j

\* C17: a source that defines two functions of one name, wherever the two
\* definitions stand, yields no chunk, and the function table of a chunk that
\* runs holds no name twice.
C17_NoTwoFunctionsOfOneName ==
    /\ (source # <<>> /\ ~Distinct(FunctionNames(source))) => NoChunk
    /\ chunks # <<>> => Distinct([i \in 1..Len(chunk.functions) |-> chunk.functions[i].name])

\* the constant a literal adds to the pool
LiteralValue(e) == IF e.k = "Integer" THEN IntegerV(e.v) ELSE StringV(e.v)

\* C18: a literal compiled when the pool already holds 65536 constants fails
\* with TooManyConstants; otherwise the Const instruction written for it has
\* as operand the index of the entry that was added, and pushes the literal's
\* value when it runs.
C18_ConstIndexesItsConstant ==
    source # <<>> =>
        \/ literals > U16Max + 1 /\ result = "TooManyConstants"
        \/ /\ literals <= U16Max + 1
           /\ result = "compiling"
           /\ Len(file) = 3
           /\ file[1] = OpCode.Const
           /\ read_u16_at(file, 1) = literals - 1
           /\ stack = <<LiteralValue(source[1].expr)>>

\* the instruction that put key's present entry into the map: the earliest
\* MapSet of the key that no MapRemove of the key follows (0: the key is absent)
Inserted(ops, key) ==
    LET sets == { i \in 1..Len(ops) :
                    /\ ops[i].k = "MapSet"
                    /\ ops[i].key = key
                    /\ \A j \in (i + 1)..Len(ops) :
                          ~(ops[j].k = "MapRemove" /\ ops[j].key = key) }
    IN IF sets = {} THEN 0 ELSE CHOOSE i \in sets : \A j \in sets : i <= j

\* the value the last MapSet of key gave it
LastSet(ops, key) ==
    ops[CHOOSE i \in 1..Len(ops) :
            /\ ops[i].k = "MapSet" /\ ops[i].key = key
            /\ \A j \in (i + 1)..Len(ops) : ~(ops[j].k = "MapSet" /\ ops[j].key = key)].value

WithinDepths(st, fs) == Len(st) <= MAX_STACK_DEPTH /\ Len(fs) <= MAX_CALL_DEPTH

\* C20: the operand stack never holds more than MAX_STACK_DEPTH values and
\* the call stack never more than MAX_CALL_DEPTH frames.  The push of Null on
\* a full stack fails with Overflow and leaves the stack as it was; the frame
\* push of Call at full depth fails with CallStackOverflow and leaves the
\* frames as they were (the caller's ip past the operands read); the Pop on
\* an empty stack fails with Underflow.
C20_DepthsBounded ==
    [][ /\ WithinDepths(stack, frames)
        /\ WithinDepths(stack', frames')
        /\ (Fetch(OpCode.Null) /\ Len(stack) = MAX_STACK_DEPTH)
              => (result' = "Overflow" /\ stack' = stack)
        /\ (Fetch(OpCode.Null) /\ Len(stack) < MAX_STACK_DEPTH)
              => (result' = "running" /\ Len(stack') = Len(stack) + 1)
        /\ (Fetch(OpCode.Call) /\ Len(frames) = MAX_CALL_DEPTH)
              => /\ result' = "CallStackOverflow"
                 /\ frames' = [frames EXCEPT ![Len(frames)].ip = @ + 4]
        /\ (Fetch(OpCode.Call) /\ Len(frames) < MAX_CALL_DEPTH)
              => (result' = "running" /\ Len(frames') = Len(frames) + 1)
        /\ (Fetch(OpCode.Pop) /\ stack = <<>>) => result' = "Underflow"
      ]_vars

\* the Call at depth MAX_CALL_DEPTH failed, and the frames are as many as before
C20_Witness ==
    /\ result = "CallStackOverflow"
    /\ Len(frames) = MAX_CALL_DEPTH
    /\ frames[MAX_CALL_DEPTH].ip = Len(CallCode)
    /\ stack = <<>>

\* C21: on Integer operands Add, Sub, Mul, Div, Neg, Inc and Dec push the
\* exact result when it is an i64 and fail with ArithmeticOverflow when it is
\* not (so Div of the least i64 by -1 and Neg of the least i64), never pushing
\* another value; Div and Mod by zero fail with DivisionByZero.
Exact(op, x, y) ==
    CASE op = OpCode.Add -> Sum(x, y)
      [] op = OpCode.Sub -> Difference(x, y)
      [] op = OpCode.Mul -> Product(x, y)
      [] op = OpCode.Div -> Quotient(x, y)
      [] op = OpCode.Neg -> Opposite(y)
      [] op = OpCode.Inc -> Sum(y, Wide(0, 1))
      [] op = OpCode.Dec -> Difference(y, Wide(0, 1))

\* the instruction op, fetched with y on top of the stack (and x below it
\* when op takes two operands), leaves the exact result or the error
ExactOrOverflow(op) ==
    LET n == Len(stack)
        y == stack[n].v
        x == IF op \in BinaryOps THEN stack[n - 1].v ELSE y
        below == SubSeq(stack, 1, IF op \in BinaryOps THEN n - 2 ELSE n - 1)
    IN IF op \in {OpCode.Div, OpCode.Mod} /\ y = Wide(0, 0)
       THEN result' = "DivisionByZero"
       ELSE op # OpCode.Mod =>
            IF fits_i64(Exact(op, x, y))
            THEN result' = "running" /\ stack' = Append(below, IntegerV(Exact(op, x, y)))
            ELSE result' = "ArithmeticOverflow"

C21_CheckedArithmetic ==
    [][\A op \in BinaryOps \cup UnaryOps : Fetch(op) => ExactOrOverflow(op)]_vars

\* Div of the least i64 by -1 has failed with ArithmeticOverflow
C21_Witness ==
    /\ chunks # <<>>
    /\ chunk.code[1] = OpCode.Div
    /\ result = "ArithmeticOverflow"
    /\ stack = <<>>

\* C22: StoreAcc sets the accumulator only when the value it pops is an
\* Integer; for a value of any other type it fails with a type mismatch and
\* leaves the accumulator as it was.  LoadAcc pushes Integer(acc) and leaves
\* the accumulator as it was.
C22_StoreAccOnlyIntegers ==
    [][/\ Fetch(OpCode.StoreAcc) /\ stack # <<>> =>
            IF stack[Len(stack)].t = ValueType.Integer
            THEN accumulator' = stack[Len(stack)].v /\ result' = "running"
            ELSE accumulator' = accumulator /\ result' = "TypeMismatch"
       /\ Fetch(OpCode.LoadAcc) =>
            /\ stack' = Append(stack, IntegerV(accumulator))
            /\ accumulator' = accumulator]_vars

\* C23: begin_load(name) fails with CircularDependency exactly when name is on
\* the loading stack, and then leaves the stack as it was; otherwise it pushes
\* name.  So the loading stack never holds a name twice, and after
\* complete_load(name) or cancel_load(name) the name is not on the stack (so
\* that begin_load(name) succeeds again).
Circular(r) == \E chain \in {join(loading_stack) \o " U+2192 " \o source'[1]} :
                   r = "CircularDependency: " \o chain

C23_CircularExactlyWhenLoading ==
    [][/\ command' = "begin_load" =>
            IF source'[1] \in Range(loading_stack)
            THEN Circular(result') /\ loading_stack' = loading_stack
            ELSE result' = "ok" /\ loading_stack' = Append(loading_stack, source'[1])
       /\ command' \in {"complete_load", "cancel_load"} =>
            source'[1] \notin Range(loading_stack')
       /\ Distinct(loading_stack')]_vars

\* begin_load("a") failed while "a" and "b" were being loaded
C23_Witness ==
    /\ command = "begin_load"
    /\ source = <<"a">>
    /\ loading_stack = <<"a", "b">>
    /\ result = "CircularDependency: a U+2192 b U+2192 a"

\* C24: the symbol token emitted at a position is the longest registered
\* glyph the rest of the input begins with (no glyph is longer than
\* max_glyph_length), and a symbol token is emitted wherever the rest begins
\* with a registered glyph: an input beginning with a glyph g2 that is a glyph
\* g1 and more gives the one token g2, never g1 and further tokens.
Begins(seq, prefix) == Len(prefix) <= Len(seq) /\ SubSeq(seq, 1, Len(prefix)) = prefix
Here == skip_whitespace_and_comments(chars)
GlyphsHere == {glyph \in symbol_table.symbols : Begins(Here, glyph)}

C24_LongestGlyphWins ==
    [][GlyphsHere # {} =>
          \E glyph \in GlyphsHere :
              /\ \A other \in GlyphsHere : Len(other) <= Len(glyph)
              /\ Len(glyph) <= symbol_table.max_glyph_len
              /\ tokens' = Append(tokens, Token_new("Symbol", glyph))
              /\ chars' = SubSeq(Here, Len(glyph) + 1, Len(Here))]_vars

\* the skull with its selector was read as one token where the skull alone is
\* a glyph too
C24_Witness ==
    /\ command = "tokenize"
    /\ {<<"U+2620">>, <<"U+2620", "U+FE0E">>} \subseteq symbol_table.symbols
    /\ Begins(source, <<"U+2620", "U+FE0E">>)
    /\ tokens # <<>>
    /\ tokens[1] = Token_new("Symbol", <<"U+2620", "U+FE0E">>)

\* C25: push_accumulator(v) saves the accumulator and sets it to v; the
\* matching pop_accumulator restores the saved value whatever was set,
\* incremented or decremented in between, the pushes and pops pairing as
\* brackets do; pop_accumulator with nothing saved leaves the accumulator
\* as it was; set_accumulator(x), then one increment and one decrement, gives
\* x.
\* the place in the calls of the push that the pop after them matches, 0 when
\* every push has been popped
RECURSIVE MatchingPush(_, _, _)
MatchingPush(calls, i, pops) ==
    IF i = 0 THEN 0
    ELSE IF calls[i].call = "pop_accumulator" THEN MatchingPush(calls, i - 1, pops + 1)
    ELSE IF calls[i].call = "push_accumulator"
    THEN IF pops = 0 THEN i ELSE MatchingPush(calls, i - 1, pops - 1)
    ELSE MatchingPush(calls, i - 1, pops)

SaveAndRestore ==
    LET n == Len(source)
        before == SubSeq(source, 1, n - 1)
        saving == MatchingPush(before, n - 1, 0)
    IN n > 0 =>
        /\ source[n].call = "push_accumulator" =>
              /\ accumulator = source[n].arg[1]
              /\ accumulator_stack[Len(accumulator_stack)] = source[n].found
        /\ source[n].call = "pop_accumulator" =>
              accumulator = IF saving = 0 THEN source[n].found ELSE source[saving].found

Steps == {"increment_accumulator", "decrement_accumulator"}
ThereAndBack ==
    LET n == Len(source)
    IN /\ n >= 2 /\ source[n - 1].call = "set_accumulator" /\ source[n].call \in Steps =>
            result = "running"
       /\ (/\ n >= 3
           /\ source[n - 2].call = "set_accumulator"
           /\ {source[n - 1].call, source[n].call} = Steps) =>
            result = "running" /\ accumulator = source[n - 2].arg[1]

C25_AccumulatorSavedAndRestored == SaveAndRestore /\ ThereAndBack

\* C26: a caught Throw goes to the handler pushed last and not yet popped: the
\* step pops exactly that handler, continues at its handler_ip with the thrown
\* value as the current exception, and leaves the handlers pushed before it
\* unchanged and in order; the handler stack only ever changes at its end.  So
\* a throw in a nested try body runs the inner catch block and not the outer
\* one, and a throw in the inner catch block runs the outer catch block.
Handled == exception_handlers[Len(exception_handlers)]
Earlier == SubSeq(exception_handlers, 1, Len(exception_handlers) - 1)
OneHandlerMore(before, after) ==
    Len(after) = Len(before) + 1 /\ SubSeq(after, 1, Len(before)) = before
DeliveredInnermost ==
    (Fetch(OpCode.Throw) /\ stack # <<>> /\ exception_handlers # <<>>) =>
        /\ exception_handlers' = Earlier
        /\ frames' # <<>>
        /\ frames'[Len(frames')].ip = Handled.handler_ip
        /\ current_exception' = <<stack[Len(stack)]>>
        /\ result' = "running"
HandlersLastInFirstOut ==
    \/ exception_handlers' = exception_handlers
    \/ OneHandlerMore(exception_handlers, exception_handlers')
    \/ OneHandlerMore(exception_handlers', exception_handlers)
NestedOutput(src) ==
    \A v \in 0..MaxLit :
        /\ src = NestedTryProgram(v) => output = <<to_string_value(IntegerV(v)), "s">>
        /\ src = ThrowInCatchProgram(v) =>
              output = << to_string_value(IntegerV(v)), "outer",
                          to_string_value(IntegerV(Other(v))) >>
C26_InnermostHandlerCatches ==
    /\ [][DeliveredInnermost /\ HandlersLastInFirstOut]_vars
    /\ [](result = "ok" => NestedOutput(source))
C26_Witness ==
    /\ result = "ok"
    /\ source = ThrowInCatchProgram(0)
    /\ output = <<to_string_value(IntegerV(0)), "outer", to_string_value(IntegerV(Other(0)))>>

\* C27: Call func_idx, arity pops arity values and pushes one frame whose ip is
\* the function's start and whose locals are the declared parameters, the i-th
\* bound to the i-th argument pushed; the caller's ip is then past the operands
\* of the Call.  Return pops that frame and leaves the callee's top of stack on
\* the operand stack.  From the Call to the Return no step changes the ip or the
\* locals of a frame below the running one, so the caller resumes after the
\* Call with its locals unchanged.
CallArity == chunk.code[Ip + 4]
Callee == chunk.functions[OperandU16 + 1]
ParamsBound(scope, params, args) ==
    /\ DOMAIN scope = {params[i][1] : i \in 1..Len(params)}
    /\ \A i \in 1..Len(params) :
          scope[params[i][1]].value = IF i <= Len(args) THEN args[i] ELSE NullV
CallEnters ==
    (/\ Fetch(OpCode.Call)
     /\ Ip + 3 < Len(chunk.code)
     /\ OperandU16 < Len(chunk.functions)
     /\ CallArity <= Len(stack)) =>
        /\ result' = "running"
        /\ stack' = SubSeq(stack, 1, Len(stack) - CallArity)
        /\ Len(frames') = Len(frames) + 1
        /\ frames'[Len(frames')].ip = Callee.start
        /\ ParamsBound(frames'[Len(frames')].scope, Callee.params,
                       SubSeq(stack, Len(stack) - CallArity + 1, Len(stack)))
        /\ frames'[Len(frames)] = [frames[Len(frames)] EXCEPT !.ip = Ip + 4]
ReturnLeaves ==
    (Fetch(OpCode.Return) /\ stack # <<>>) =>
        /\ result' = "running"
        /\ frames' = SubSeq(frames, 1, Len(frames) - 1)
        /\ stack' = stack
CallerIpKept ==
    (~Fetch(OpCode.Throw) /\ ~Fetch(OpCode.Call)) =>
        \A i \in 1..(Len(frames) - 1) : Len(frames') >= i => frames'[i].ip = frames[i].ip
CallProtocol == CallEnters /\ ReturnLeaves /\ CallerIpKept
CallerLocalsKept ==
    \A i \in 2..(Len(frames) - 1) : Len(frames') >= i => frames'[i].scope = frames[i].scope
C27_CallAndReturn == [][CallProtocol /\ CallerLocalsKept]_vars

\* C28: in a call through a variable the arguments are compiled first and the
\* load of the variable last, and CallClosure pops the callee first and the
\* arguments after it: the value applied is the variable's value, the i-th
\* parameter is bound to the i-th argument of the source, and the new frame of a
\* Closure carries that closure, whose captures LoadCapture then reads.  A
\* callee that is neither a Function nor a Closure is a type mismatch.
ClosureArity == chunk.code[Ip + 2]
Applied == stack[Len(stack)]
AppliedIndex ==
    IF Applied.t = ValueType.Closure THEN Applied.v.function_index ELSE Applied.v
AppliedArgs == SubSeq(stack, Len(stack) - ClosureArity, Len(stack) - 1)
\* the three bytes before the CallClosure are the load of the variable
LoadedVariable ==
    /\ Ip >= 3
    /\ \/ /\ chunk.code[Ip - 2] = OpCode.LoadVar
          /\ get_variable(Machine, chunk.strings[read_u16_at(chunk.code, Ip - 2) + 1])
                = [ok |-> TRUE, value |-> Applied]
       \/ /\ chunk.code[Ip - 2] = OpCode.LoadCapture
          /\ Top.closure # <<>>
          /\ Top.closure[1].captures[read_u16_at(chunk.code, Ip - 2) + 1] = Applied
AppliesVariable ==
    (Fetch(OpCode.CallClosure) /\ Ip + 1 < Len(chunk.code) /\ stack # <<>>) =>
        /\ command = "run" => LoadedVariable
        /\ IF Applied.t \in {ValueType.Function, ValueType.Closure}
           THEN (AppliedIndex < Len(chunk.functions) /\ ClosureArity < Len(stack)) =>
                   /\ result' = "running"
                   /\ stack' = SubSeq(stack, 1, Len(stack) - 1 - ClosureArity)
                   /\ Len(frames') = Len(frames) + 1
                   /\ frames'[Len(frames')].ip = chunk.functions[AppliedIndex + 1].start
                   /\ ParamsBound(frames'[Len(frames')].scope,
                                  chunk.functions[AppliedIndex + 1].params, AppliedArgs)
                   /\ frames'[Len(frames')].closure =
                         IF Applied.t = ValueType.Closure THEN <<Applied.v>> ELSE <<>>
           ELSE result' = "TypeMismatch"
ReadsItsCapture ==
    (Fetch(OpCode.LoadCapture) /\ Ip + 2 < Len(chunk.code) /\ Top.closure # <<>>
        /\ OperandU16 < Len(Top.closure[1].captures)) =>
        stack' = Append(stack, Top.closure[1].captures[OperandU16 + 1])
IndirectOutput(src) ==
    \A v \in 0..MaxLit :
        /\ (src = IndirectCallProgram(v) /\ result = "ok") =>
                 output = << to_string_value(IntegerV(v)),
                             to_string_value(IntegerV(Other(v))),
                             to_string_value(IntegerV(Other(v))) >>
        /\ (src = ClosureCallProgram(v) /\ result = "ok") =>
                 output = << "s", to_string_value(IntegerV(Other(v))),
                             to_string_value(IntegerV(v)) >>
        /\ src = NotCallableProgram(v) => result \in {"running", "TypeMismatch"}
C28_IndirectCallOrder ==
    /\ [][AppliesVariable /\ ReadsItsCapture]_vars
    /\ [](command = "run" => IndirectOutput(source))
C28_Witness ==
    /\ source = ClosureCallProgram(0)
    /\ result = "ok"
    /\ output = <<"s", to_string_value(IntegerV(Other(0))), to_string_value(IntegerV(0))>>

\* C29: in the code of a compiled loop the closing Loop and every continue of
\* the body land on the first byte of the loop's condition, and the JumpIfFalse
\* and every break of the body land on the first byte after the closing Loop;
\* a break or continue inside an inner loop lands in the inner loop's code.
\* The landing offsets are those the instructions give at run time: the offset
\* after the operand, plus the operand for Jump and JumpIfFalse, minus it for
\* Loop.
RECURSIVE JumpSites(_, _, _, _, _)
\* the jump instructions of the statements ss, which begin at offset `at` in
\* the loop from `start` to `end`: their opcode, offset and wanted landing
JumpSites(ss, at, start, end, n) ==
    IF ss = <<>> THEN <<>>
    ELSE CASE Head(ss).k = "Break" ->
                 <<[op |-> OpCode.Jump, at |-> at, wanted |-> end]>>
                 \o JumpSites(Tail(ss), at + 3, start, end, n)
           [] Head(ss).k = "Continue" ->
                 <<[op |-> OpCode.Loop, at |-> at, wanted |-> start]>>
                 \o JumpSites(Tail(ss), at + 3, start, end, n)
           [] Head(ss).k = "Loop" ->
                 <<[op |-> OpCode.JumpIfFalse, at |-> at + 3,
                    wanted |-> at + code_size(Head(ss), n)]>>
                 \o JumpSites(Head(ss).body, at + 6, at, at + code_size(Head(ss), n), n)
                 \o <<[op |-> OpCode.Loop, at |-> at + code_size(Head(ss), n) - 3,
                       wanted |-> at]>>
                 \o JumpSites(Tail(ss), at + code_size(Head(ss), n), start, end, n)
           [] OTHER -> JumpSites(Tail(ss), at + code_size(Head(ss), n), start, end, n)
\* the byte of the compiled code at an offset (file leaves the filler out)
CodeAt(offset) ==
    IF offset < filler_at(source, 0, literals) THEN file[offset + 1]
    ELSE file[offset - literals + 1]
Operand(site) == CodeAt(site.at + 2) * 256 + CodeAt(site.at + 1)
Lands(site) ==
    IF site.op = OpCode.Loop THEN site.at + 3 - Operand(site) ELSE site.at + 3 + Operand(site)
C29_LoopJumpsLand ==
    result = "compiled" =>
        \A i \in 1..Len(JumpSites(source, 0, 0, 0, literals)) :
            LET site == JumpSites(source, 0, 0, 0, literals)[i]
            IN CodeAt(site.at) = site.op /\ Lands(site) = site.wanted

\* C30: the arms of a match statement are tested in source order and at most
\* one arm body runs: that of the first arm whose pattern equals the scrutinee
\* or is the wildcard.  After an arm body has run no arm is tested any more,
\* and when no arm matches no body runs.
RECURSIVE first_arm(_, _, _)
\* the index of the first arm from the k-th on that takes the literal, or 0
first_arm(arms, literal, k) ==
    IF k > Len(arms) THEN 0
    ELSE IF arms[k].pattern = <<>> \/ arms[k].pattern[1] = literal THEN k
    ELSE first_arm(arms, literal, k + 1)
Chosen(match) == first_arm(match.arms, match.expr, 1)
MatchOutput(match) ==
    IF Chosen(match) = 0 THEN <<"end">> ELSE <<ArmMarks[Chosen(match)], "end">>
IsMatchProgram == command = "run" /\ source # <<>> /\ source[1].k = "Match"
C30_FirstMatchingArmRuns ==
    IsMatchProgram =>
        /\ result \in {"running", "ok"}
        /\ result = "ok" => output = MatchOutput(source[1])
        /\ output # <<>> => ~Fetch(OpCode.Eq)
        /\ \A k \in 1..MatchArms :
              Len(SelectSeq(output, LAMBDA line : line = ArmMarks[k])) <=
                 IF k = Chosen(source[1]) THEN 1 ELSE 0
C30_Witness ==
    /\ result = "ok"
    /\ \E i \in 1..MatchProgramCount :
          /\ source = MatchProgram(0, i)
          /\ source[1].arms[1].pattern = <<IntE(Other(0))>>
          /\ source[1].arms[2].pattern = <<>>
          /\ source[1].arms[3].pattern = <<IntE(0)>>
    /\ output = <<"second", "end">>

\* C31: a declaration of a name the running frame's scope already has fails
\* with DuplicateVariable and leaves that scope as it was, whether the
\* declaration is a DeclareVar (met again in a later iteration of a loop, or
\* naming a parameter), the binding of a second parameter of the same name, or
\* the binding of a Catch.  A name the running frame does not have is declared
\* in it, whatever the frames below hold: their scopes are unchanged and a
\* lookup from the running frame finds the new variable.
DeclaredHere(name) == Scope_contains(Top.scope, name)
ScopesBelowKept == \A i \in 1..(Len(frames) - 1) : frames'[i].scope = frames[i].scope
DeclareVarReady ==
    /\ Fetch(OpCode.DeclareVar)
    /\ Ip + 3 < Len(chunk.code)
    /\ OperandU16 < Len(chunk.strings)
    /\ stack # <<>>
DeclareVarRejects ==
    (DeclareVarReady /\ DeclaredHere(OperandName)) =>
        /\ result' = "DuplicateVariable"
        /\ frames'[Len(frames)].scope = Top.scope
        /\ ScopesBelowKept
DeclareVarShadows ==
    (DeclareVarReady /\ ~DeclaredHere(OperandName)) =>
        /\ result' = "running"
        /\ DOMAIN frames'[Len(frames)].scope = DOMAIN Top.scope \cup {OperandName}
        /\ \A n \in DOMAIN Top.scope : frames'[Len(frames)].scope[n] = Top.scope[n]
        /\ ScopesBelowKept
        /\ get_variable([Machine EXCEPT !.frames = frames'], OperandName)
              = [ok |-> TRUE, value |-> stack[Len(stack)]]
CatchRejects ==
    (/\ Fetch(OpCode.Catch)
     /\ Ip + 2 < Len(chunk.code)
     /\ OperandU16 < Len(chunk.strings)
     /\ current_exception # <<>>
     /\ DeclaredHere(OperandName)) =>
        /\ result' = "DuplicateVariable"
        /\ frames'[Len(frames)].scope = Top.scope
        /\ ScopesBelowKept
\* the first parameter of the name params[i] has
FirstOfName(params, i) == CHOOSE j \in 1..i :
    /\ params[j][1] = params[i][1]
    /\ \A k \in 1..(j - 1) : params[k][1] # params[i][1]
RepeatedParam(params) ==
    \E i \in 1..Len(params) : FirstOfName(params, i) # i
ParamRejects ==
    (/\ Fetch(OpCode.Call)
     /\ Ip + 3 < Len(chunk.code)
     /\ OperandU16 < Len(chunk.functions)
     /\ CallArity <= Len(stack)
     /\ Len(frames) < MAX_CALL_DEPTH
     /\ RepeatedParam(Callee.params)) =>
        /\ result' = "DuplicateVariable"
        /\ \A i \in 1..Len(frames) : frames'[i].scope = frames[i].scope
        /\ \A i \in 1..Len(Callee.params) :
              Callee.params[i][1] \in DOMAIN frames'[Len(frames')].scope =>
                 frames'[Len(frames')].scope[Callee.params[i][1]].value =
                    stack[Len(stack) - CallArity + FirstOfName(Callee.params, i)]
ScopeOutput(src) ==
    \A v \in 0..MaxLit :
        /\ (src = ShadowProgram(v) /\ result = "ok") =>
              output = <<to_string_value(IntegerV(Other(v))), to_string_value(IntegerV(v))>>
        /\ (src = RedeclareInLoopProgram(v) /\ command = "run" /\ result # "running") =>
              /\ result = "DuplicateVariable"
              /\ output = <<to_string_value(IntegerV(v))>>
C31_DuplicateDeclarationFails ==
    /\ [][DeclareVarRejects /\ DeclareVarShadows /\ CatchRejects /\ ParamRejects]_vars
    /\ [](ScopeOutput(source))
C31_Witness ==
    /\ source = RedeclareInLoopProgram(0)
    /\ result = "DuplicateVariable"
    /\ output = <<to_string_value(IntegerV(0))>>
    /\ DeclaredHere("y")

\* C32: compile returns on every source: a step that leaves it running has
\* consumed a token, of which the source has finitely many.  In particular no
\* step leaves the compiler running in the same call at the same token, where
\* it would take the same step again.  On a source that ends inside an array
\* literal, a map literal, an argument list or a loop, compile returns
\* UnexpectedEof or UnexpectedToken.
Opened(ts, n) ==
    Cardinality({i \in 1..n : ts[i] \in {"LeftBracket", "LeftBrace", "LoopStart"}})
Closed(ts, n) ==
    Cardinality({i \in 1..n : ts[i] \in {"RightBracket", "RightBrace", "LoopEnd"}})
EndsUnclosed(ts) == Opened(ts, Len(ts)) > Closed(ts, Len(ts))
CompileReturned == command = "compile" /\ position = <<>>
StepConsumes ==
    (result = "compiling" /\ result' = "compiling") => current' > current
C32_CompileTerminates ==
    /\ [][StepConsumes]_vars
    /\ []((CompileReturned /\ EndsUnclosed(source)) =>
             result \in {"UnexpectedEof", "UnexpectedToken"})

\* C33: while a compiled program runs, every handler on the exception-handler
\* stack was pushed in a frame that is still on the call stack: its frame_depth
\* is at most the call depth, and a Return leaves no handler of the frame it pops.
HandlersOfLiveFrames ==
    \A i \in 1..Len(exception_handlers) : exception_handlers[i].frame_depth <= Len(frames)
C33_HandlersBelongToLiveFrames == (command = "run" /\ ~halted) => HandlersOfLiveFrames

\* OpCode::operand_count
operand_count(op) ==
    CASE op \in {OpCode.DefineFunc} -> 5
      [] op \in {OpCode.LoadModule} -> 4
      [] op \in {OpCode.DeclareVar, OpCode.Call, OpCode.Input, OpCode.Interpolate,
                 OpCode.MakeClosure} -> 3
      [] op \in {OpCode.Const, OpCode.LoadVar, OpCode.StoreVar, OpCode.LoadGlobal,
                 OpCode.StoreGlobal, OpCode.Jump, OpCode.JumpIfFalse, OpCode.JumpIfTrue,
                 OpCode.Loop, OpCode.LoadFunc, OpCode.PrintLit, OpCode.MakeArray,
                 OpCode.MakeMap, OpCode.LoadCapture, OpCode.StoreCapture, OpCode.MatchArm,
                 OpCode.MatchBind, OpCode.Import, OpCode.Export, OpCode.TryBegin,
                 OpCode.Catch} -> 2
      [] op \in {OpCode.Convert, OpCode.CallClosure, OpCode.MatchBegin} -> 1
      [] OTHER -> 0

\* the try bodies of the code from offset at on: for each TryBegin the offsets
\* from its first body instruction to its TryEnd, which stands four bytes
\* before the handler the operand names
RECURSIVE TryBodies(_, _)
TryBodies(code, at) ==
    IF at >= Len(code) THEN {}
    ELSE (IF code[at + 1] = OpCode.TryBegin
          THEN {[from |-> at + 3, to |-> at + 3 + read_u16_at(code, at + 1) - 4]}
          ELSE {})
         \cup TryBodies(code, at + 1 + operand_count(code[at + 1]))

\* C34: the handlers on the handler stack are as many as the try bodies control
\* is inside, counting for every frame the try bodies its ip is in: a body left
\* by TryEnd, break, continue or return leaves no handler behind.  So a Throw
\* executed outside every try body is not caught.
InsideTryBodies(ip) == {b \in TryBodies(chunk.code, 0) : b.from <= ip /\ ip <= b.to}
RECURSIVE TryDepth(_)
TryDepth(i) ==
    IF i = 0 THEN 0 ELSE Cardinality(InsideTryBodies(frames[i].ip)) + TryDepth(i - 1)
HandlersMatchTryBodies ==
    (command = "run" /\ result = "running" /\ ~halted) =>
        Len(exception_handlers) = TryDepth(Len(frames))
ThrowOutsideUncaught ==
    (command = "run" /\ Fetch(OpCode.Throw) /\ stack # <<>> /\ TryDepth(Len(frames)) = 0) =>
        result' # "running"
C34_HandlersMatchTryBodies == []HandlersMatchTryBodies /\ [][ThrowOutsideUncaught]_vars

\* C35: when a match statement has finished, by a pattern arm, by the wildcard
\* arm or with no arm taken, the operand stack is as deep as it was before the
\* scrutinee was evaluated: in the match programs, which push nothing else, it
\* is empty when the run ends.
C35_MatchKeepsStackDepth == (IsMatchProgram /\ result = "ok") => stack = <<>>

\* C36: a function called with the stack at length base_pointer leaves the
\* entries below base_pointer alone: no step of the callee pops or overwrites
\* them, a Pop of a callee that has pushed nothing fails, and right after its
\* Return the stack has base_pointer + 1 entries.
InCallee == command = "run" /\ result = "running" /\ ~halted /\ Len(frames) > 1
BelowBaseKept ==
    (InCallee /\ result' = "running" /\ ~Fetch(OpCode.Throw)) =>
        /\ Len(stack') >= Top.base_pointer
        /\ SubSeq(stack', 1, Top.base_pointer) = SubSeq(stack, 1, Top.base_pointer)
PopAtBaseFails ==
    (InCallee /\ Fetch(OpCode.Pop) /\ Len(stack) = Top.base_pointer) => result' # "running"
ReturnLeavesOneValue ==
    (InCallee /\ Fetch(OpCode.Return)) => Len(stack') = Top.base_pointer + 1
C36_CalleeKeepsCallerStack == [][BelowBaseKept /\ PopAtBaseFails /\ ReturnLeavesOneValue]_vars

\* C37: a direct call whose argument count is not the parameter count of the
\* function never enters it: the compiler rejects the program, or the Call
\* fails at run time.  No run binds a missing parameter to Null or drops a
\* surplus argument.
WrongArityCall ==
    /\ command = "run"
    /\ Fetch(OpCode.Call)
    /\ Ip + 3 < Len(chunk.code)
    /\ OperandU16 < Len(chunk.functions)
    /\ CallArity # Len(Callee.params)
C37_WrongArityRejected == [][WrongArityCall => result' # "running"]_vars

\* C38: a variable that DeclareVar or the binding of a parameter created holds
\* a value of its var_type, or Null when it is optional; StoreVar keeps it so.
\* The variables a Catch binds, declared with the type Null, are not meant.
HoldsItsType(var) ==
    \/ var.value.t = var.var_type
    \/ var.value.t = ValueType.Null /\ var.optional
ScopeTyped(scope) ==
    \A n \in DOMAIN scope : scope[n].var_type # ValueType.Null => HoldsItsType(scope[n])
C38_VariablesHoldTheirType ==
    command = "run" => \A i \in 1..Len(frames) : ScopeTyped(frames[i].scope)

\* C39: a program the compiler accepted, which therefore holds an
\* end-of-program mark somewhere, never ends its run with UniverseCorruption,
\* the error of a spell that ended without the mark.
C39_AcceptedProgramEndsMarked == command = "run" => result # "UniverseCorruption"

\* C40: every Map the machine holds, on the operand stack or in a variable,
\* has keys that are pairwise different under the equality of Value, whether
\* MakeMap built it from a literal, one that repeats a key included, or MapSet
\* or MapRemove derived it.
DistinctKeys(entries) ==
    \A i, j \in 1..Len(entries) : i # j => ~Value_eq(entries[i][1], entries[j][1])
MapHasDistinctKeys(value) == value.t = ValueType.Map => DistinctKeys(value.v)
C40_MapKeysDistinct ==
    /\ \A i \in 1..Len(stack) : MapHasDistinctKeys(stack[i])
    /\ \A i \in 1..Len(frames) : \A n \in DOMAIN frames[i].scope :
          MapHasDistinctKeys(frames[i].scope[n].value)

====
